---- MODULE Spec2Model ----
(***************************************************************************)
(* The irctest dashboard (irctest/dashboard/format.py): JUnit record files *)
(* are parsed into CaseResults, jobs are classified, and the module pages, *)
(* job pages, index and captured-output files are written.                 *)
(*                                                                         *)
(* Text is modelled as a sequence of one-character strings, so that        *)
(* length, substring tests, lexicographic order and the regular            *)
(* expressions of the source are computed, not assumed.                    *)
(***************************************************************************)
EXTENDS Integers, Sequences, FiniteSets, TLC

VARIABLES
    n_self,     \* output_filename: the CaseResult it is called on
    n_pc,       \* output_filename: "idle", "call", "returned" or "raised"
    n_ret,      \* output_filename: the file name returned
    pc,         \* main: the statement it is at, "done", "aborted" or "idle"
    fault,      \* main: the exception that ended the run ("" for none)
    filenames,  \* main: the record file names of the command line
    fi,         \* main: how many of them iter_job_results was called on
    suite,      \* iter_job_results: the case elements iterated so far
    yielded,    \* iter_job_results: the CaseResults this call yielded
    nread,      \* the case elements read from all files so far
    results,    \* main: the list of CaseResults
    job_categories, \* write_html_pages: job -> category, as far as set
    pages,      \* write_html_pages: the (page_type, title, file_name) list
    written     \* the files written to the output directory, in order

nameVars == <<n_self, n_pc, n_ret>>
parseVars == <<filenames, fi, suite, yielded, nread, results>>
pageVars == <<job_categories, pages, written>>
mainVars == <<pc, fault, filenames, fi, suite, yielded, nread, results,
              job_categories, pages, written>>
vars == <<n_self, n_pc, n_ret, pc, fault, filenames, fi, suite, yielded,
          nread, results, job_categories, pages, written>>

(***************************************************************************)
(* Text helpers                                                            *)
(***************************************************************************)

\* Optional[str]: None, or a text
None == [some |-> FALSE, val |-> <<>>]
Some(s) == [some |-> TRUE, val |-> s]

\* "".join(parts)
RECURSIVE Concat(_)
Concat(parts) ==
    IF parts = <<>> THEN <<>> ELSE Head(parts) \o Concat(Tail(parts))

\* c * n
RECURSIVE Rep(_, _)
Rep(c, n) == IF n = 0 THEN <<>> ELSE <<c>> \o Rep(c, n - 1)

\* set(s)
CharsOf(s) == {s[i] : i \in 1..Len(s)}

\* \w of the re module, on ASCII text
WordChars ==
    { "a","b","c","d","e","f","g","h","i","j","k","l","m","n","o","p","q","r",
      "s","t","u","v","w","x","y","z","A","B","C","D","E","F","G","H","I","J",
      "K","L","M","N","O","P","Q","R","S","T","U","V","W","X","Y","Z","0","1",
      "2","3","4","5","6","7","8","9","_" }

(***************************************************************************)
(* CaseResult.output_filename and md5sum                                   *)
(***************************************************************************)

NETLIFY_CHAR_BLACKLIST == {"\"", ":", "<", ">", "|", "*", "?", "\r", "\n", "#"}

\* the longest test name that is written as it is
NameLimit == 50

\* base64.urlsafe_b64encode(hashlib.md5(text.encode()).digest()).decode(),
\* tabulated from hashlib for every text of one to three characters over
\* a [ ] : (the parameter texts that the test names drawn below can hold)
Md5Table ==
    (<<"a">> :> <<"D","M","F","1","u","c","D","x","t","q","g","x","w","5","n","i","a","X","c","m","Y","Q","=","=">>) @@
    (<<"[">> :> <<"g","V","Q","X","J","n","9","2","9","v","R","g","p","K","Y","f","n","b","d","f","2","w","=","=">>) @@
    (<<"]">> :> <<"D","7","0","X","d","u","G","t","I","s","W","a","c","I","D","T","X","H","_","U","2","w","=","=">>) @@
    (<<":">> :> <<"h","T","r","p","D","w","N","R","M","k","v","X","P","q","Y","V","5","k","h","1","F","w","=","=">>) @@
    (<<"a","a">> :> <<"Q","S","S","8","C","p","M","1","w","n","8","I","b","y","S","6","I","H","p","J","E","g","=","=">>) @@
    (<<"a","[">> :> <<"F","3","Z","C","F","m","i","G","Q","I","U","u","E","k","7","J","l","R","J","T","j","w","=","=">>) @@
    (<<"a","]">> :> <<"F","Y","c","h","O","w","s","-","3","q","G","d","f","d","S","1","x","T","d","B","h","A","=","=">>) @@
    (<<"a",":">> :> <<"N","X","U","D","m","G","l","R","u","A","6","J","a","4","Y","W","p","B","i","k","1","g","=","=">>) @@
    (<<"[","a">> :> <<"B","f","l","2","5","o","w","3","M","b","g","K","z","s","m","O","3","x","c","-","f","w","=","=">>) @@
    (<<"[","[">> :> <<"e","F","Y","x","x","t","_","i","Q","f","B","R","F","S","1","_","f","q","3","v","7","Q","=","=">>) @@
    (<<"[","]">> :> <<"1","1","F","x","O","Y","i","Y","f","p","M","x","m","A","N","j","4","k","G","J","z","g","=","=">>) @@
    (<<"[",":">> :> <<"4","o","p","1","4","E","D","v","q","q","l","g","j","n","V","F","t","c","I","h","V","g","=","=">>) @@
    (<<"]","a">> :> <<"3","7","j","h","y","O","X","w","J","A","t","b","8","n","J","9","Q","u","b","5","W","A","=","=">>) @@
    (<<"]","[">> :> <<"Q","m","u","r","U","6","S","P","s","5","2","y","a","j","D","M","j","b","r","1","P","A","=","=">>) @@
    (<<"]","]">> :> <<"8","L","L","R","W","M","M","U","y","d","X","D","_","O","w","u","x","b","i","L","y","A","=","=">>) @@
    (<<"]",":">> :> <<"t","u","V","T","6","e","H","X","0","Z","5","v","w","Z","J","_","A","y","Z","2","V","Q","=","=">>) @@
    (<<":","a">> :> <<"Z","s","B","h","J","G","g","r","A","F","8","l","b","-","k","O","M","y","X","P","e","Q","=","=">>) @@
    (<<":","[">> :> <<"E","D","J","n","e","F","p","6","m","z","p","B","Q","k","K","L","p","9","b","a","m","Q","=","=">>) @@
    (<<":","]">> :> <<"Z","w","8","Q","N","_","c","h","F","u","F","R","7","M","9","o","c","4","b","m","R","A","=","=">>) @@
    (<<":",":">> :> <<"R","Q","H","A","k","b","A","2","b","X","b","q","M","h","i","2","z","9","2","A","l","w","=","=">>) @@
    (<<"a","a","a">> :> <<"R","7","z","l","x","0","9","Y","n","0","h","n","2","9","V","-","n","K","n","4","C","A","=","=">>) @@
    (<<"a","a","[">> :> <<"1","b","K","E","G","p","D","f","V","M","_","h","I","8","E","0","k","v","g","s","B","g","=","=">>) @@
    (<<"a","a","]">> :> <<"T","I","O","f","9","B","i","O","4","n","4","5","7","l","b","f","q","r","p","u","m","w","=","=">>) @@
    (<<"a","a",":">> :> <<"F","_","m","i","m","X","_","h","5","Z","l","u","u","E","s","O","H","P","5","t","i","Q","=","=">>) @@
    (<<"a","[","a">> :> <<"M","c","G","2","F","o","m","x","s","X","5","s","6","E","9","S","C","m","j","d","G","w","=","=">>) @@
    (<<"a","[","[">> :> <<"N","8","O","C","R","l","0","R","f","t","a","-","b","B","5","s","K","S","d","g","t","Q","=","=">>) @@
    (<<"a","[","]">> :> <<"I","r","V","W","d","X","G","q","H","C","T","1","2","X","3","b","L","r","K","L","0","g","=","=">>) @@
    (<<"a","[",":">> :> <<"V","9","I","f","u","I","-","f","Z","O","E","X","F","p","J","f","g","j","t","8","-","w","=","=">>) @@
    (<<"a","]","a">> :> <<"Q","r","C","X","V","r","m","o","W","i","z","B","-","Y","i","O","q","j","D","s","A","Q","=","=">>) @@
    (<<"a","]","[">> :> <<"Y","h","7","V","a","f","q","D","w","s","_","6","n","F","r","E","G","Q","B","g","X","Q","=","=">>) @@
    (<<"a","]","]">> :> <<"D","1","_","e","e","-","7","k","y","A","o","e","p","P","y","R","i","g","D","Y","F","A","=","=">>) @@
    (<<"a","]",":">> :> <<"l","s","g","S","2","9","V","t","F","u","b","y","u","j","5","P","U","k","k","q","O","Q","=","=">>) @@
    (<<"a",":","a">> :> <<"S","h","z","4","U","T","k","5","Z","Y","m","J","T","h","D","5","G","s","X","U","7","A","=","=">>) @@
    (<<"a",":","[">> :> <<"c","I","A","6","P","g","J","-","m","z","v","p","Z","z","m","R","0","u","E","U","u","g","=","=">>) @@
    (<<"a",":","]">> :> <<"Y","j","K","O","O","l","_","i","o","t","z","m","t","L","g","X","b","b","D","O","W","Q","=","=">>) @@
    (<<"a",":",":">> :> <<"a","q","H","c","S","F","f","l","g","q","K","P","w","G","i","8","w","B","c","p","U","A","=","=">>) @@
    (<<"[","a","a">> :> <<"9","3","3","q","U","L","Z","C","S","D","o","j","Y","7","I","F","t","i","R","c","4","g","=","=">>) @@
    (<<"[","a","[">> :> <<"G","N","g","h","P","P","i","D","s","q","H","C","Q","g","j","D","2","h","e","h","7","g","=","=">>) @@
    (<<"[","a","]">> :> <<"i","B","Z","D","V","G","U","o","F","_","_","u","N","t","W","W","p","o","O","i","1","A","=","=">>) @@
    (<<"[","a",":">> :> <<"L","X","_","g","m","Q","Z","m","o","s","z","p","V","e","M","M","r","R","8","5","h","Q","=","=">>) @@
    (<<"[","[","a">> :> <<"q","D","9","-","O","A","7","i","_","a","a","8","-","x","v","B","z","t","g","p","J","A","=","=">>) @@
    (<<"[","[","[">> :> <<"J","6","y","J","9","j","_","2","3","4","_","Y","j","y","2","F","x","I","i","x","J","w","=","=">>) @@
    (<<"[","[","]">> :> <<"O","S","R","U","0","T","A","Z","s","y","R","k","Y","1","R","-","F","k","Z","5","W","A","=","=">>) @@
    (<<"[","[",":">> :> <<"F","_","3","m","a","5","R","m","0","m","6","d","6","L","J","l","V","g","q","Q","b","g","=","=">>) @@
    (<<"[","]","a">> :> <<"I","e","k","-","o","-","i","O","y","0","1","Q","X","C","p","P","u","N","F","H","G","w","=","=">>) @@
    (<<"[","]","[">> :> <<"y","x","u","S","_","I","o","t","o","Z","n","Y","t","4","-","S","k","R","F","R","5","A","=","=">>) @@
    (<<"[","]","]">> :> <<"l","1","d","L","V","e","i","7","v","y","v","e","j","z","v","o","V","p","-","P","D","A","=","=">>) @@
    (<<"[","]",":">> :> <<"F","I","v","t","5","a","A","f","r","P","k","s","4","V","m","r","D","m","A","f","R","A","=","=">>) @@
    (<<"[",":","a">> :> <<"C","s","R","o","O","E","9","d","6","5","c","a","L","i","2","A","V","b","8","L","S","Q","=","=">>) @@
    (<<"[",":","[">> :> <<"P","m","w","r","R","d","4","m","R","X","M","_","_","0","v","T","l","w","j","7","4","w","=","=">>) @@
    (<<"[",":","]">> :> <<"S","N","f","1","Y","v","L","p","a","j","W","S","H","Q","Z","5","M","i","g","M","u","w","=","=">>) @@
    (<<"[",":",":">> :> <<"v","H","A","Y","o","1","Q","s","E","c","S","l","Q","M","l","w","U","q","G","E","8","g","=","=">>) @@
    (<<"]","a","a">> :> <<"t","k","C","A","3","k","L","Z","0","l","W","e","3","h","G","4","Y","x","4","M","U","Q","=","=">>) @@
    (<<"]","a","[">> :> <<"f","c","l","y","o","_","h","c","A","0","9","Q","U","t","5","t","N","t","Q","c","5","Q","=","=">>) @@
    (<<"]","a","]">> :> <<"y","S","f","e","l","g","I","P","Q","F","B","5","l","H","w","R","J","X","0","Y","W","w","=","=">>) @@
    (<<"]","a",":">> :> <<"6","K","J","L","V","0","H","o","s","_","J","m","C","5","f","Z","s","9","J","E","n","w","=","=">>) @@
    (<<"]","[","a">> :> <<"-","t","j","p","u","U","H","a","a","S","D","h","H","U","r","B","O","e","J","e","6","g","=","=">>) @@
    (<<"]","[","[">> :> <<"i","a","5","j","G","c","w","w","r","N","I","s","u","C","s","J","E","g","p","i","B","g","=","=">>) @@
    (<<"]","[","]">> :> <<"2","I","1","y","c","7","M","e","9","_","0","T","I","P","0","W","l","n","4","S","z","Q","=","=">>) @@
    (<<"]","[",":">> :> <<"O","x","q","T","a","F","0","3","G","f","n","V","2","n","Q","h","N","8","Z","-","Y","A","=","=">>) @@
    (<<"]","]","a">> :> <<"o","d","Q","Y","U","N","v","n","T","W","N","3","L","e","r","I","b","b","0","z","A","A","=","=">>) @@
    (<<"]","]","[">> :> <<"O","p","9","9","n","d","g","U","Z","6","k","X","a","2","Z","B","h","-","8","y","g","w","=","=">>) @@
    (<<"]","]","]">> :> <<"k","6","T","h","C","Q","l","r","e","i","r","Q","j","n","v","F","a","J","Q","F","n","g","=","=">>) @@
    (<<"]","]",":">> :> <<"6","J","j","D","U","S","t","L","e","9","3","k","0","6","k","5","B","b","p","e","7","A","=","=">>) @@
    (<<"]",":","a">> :> <<"W","M","Q","7","G","n","c","O","o","n","D","J","8","K","S","t","O","4","p","I","N","Q","=","=">>) @@
    (<<"]",":","[">> :> <<"5","q","j","8","7","v","N","G","1","S","d","0","k","R","s","r","o","k","N","b","q","w","=","=">>) @@
    (<<"]",":","]">> :> <<"k","v","m","X","N","i","8","m","c","l","L","_","Q","m","h","4","e","D","b","f","7","g","=","=">>) @@
    (<<"]",":",":">> :> <<"P","I","c","3","W","5","3","Y","V","r","-","C","F","B","Y","w","6","Y","h","Y","a","A","=","=">>) @@
    (<<":","a","a">> :> <<"a","4","T","9","o","s","C","r","S","K","5","_","h","b","m","h","S","F","N","u","J","Q","=","=">>) @@
    (<<":","a","[">> :> <<"B","i","Z","j","Z","S","5","Y","2","b","P","R","o","I","1","Z","i","j","T","L","u","A","=","=">>) @@
    (<<":","a","]">> :> <<"e","I","g","S","I","U","f","Z","e","y","l","N","2","I","B","d","X","n","1","e","C","A","=","=">>) @@
    (<<":","a",":">> :> <<"A","S","u","D","_","n","c","x","p","s","E","L","d","t","Q","r","l","Z","h","2","I","g","=","=">>) @@
    (<<":","[","a">> :> <<"J","6","K","r","X","j","f","Z","i","V","v","K","O","m","b","x","l","l","_","2","0","A","=","=">>) @@
    (<<":","[","[">> :> <<"G","t","0","9","4","c","k","U","p","B","8","P","7","L","8","g","h","1","s","h","Y","A","=","=">>) @@
    (<<":","[","]">> :> <<"n","E","W","P","X","j","n","1","F","-","u","x","1","R","P","Q","n","T","O","k","j","Q","=","=">>) @@
    (<<":","[",":">> :> <<"6","Q","C","Y","7","P","8","9","N","Y","a","m","J","T","A","-","f","h","l","t","8","w","=","=">>) @@
    (<<":","]","a">> :> <<"Z","j","M","b","r","_","l","s","N","y","d","T","b","x","w","8","q","V","i","f","D","A","=","=">>) @@
    (<<":","]","[">> :> <<"U","w","A","g","5","6","s","0","D","E","o","E","8","8","n","A","_","X","H","J","u","Q","=","=">>) @@
    (<<":","]","]">> :> <<"q","w","c","u","R","F","X","W","e","i","n","O","w","F","l","G","M","z","F","i","o","g","=","=">>) @@
    (<<":","]",":">> :> <<"4","q","g","-","W","r","A","X","a","h","3","w","Y","G","K","t","c","x","_","k","S","A","=","=">>) @@
    (<<":",":","a">> :> <<"u","_","X","u","n","m","U","5","m","1","G","M","u","u","I","Q","t","M","Z","J","Y","g","=","=">>) @@
    (<<":",":","[">> :> <<"Z","f","4","j","H","G","R","u","p","C","u","7","h","L","L","N","8","4","j","n","V","Q","=","=">>) @@
    (<<":",":","]">> :> <<"Q","V","u","d","i","P","p","4","H","9","P","H","n","n","D","7","Y","E","U","i","W","A","=","=">>) @@
    (<<":",":",":">> :> <<"5","E","H","8","9","K","d","o","a","B","f","-","h","o","v","z","i","l","w","s","B","w","=","=">>)

\* the same for the row anchors of 50 characters and more of the tables
\* built below: a class name, ".", and a test name of 47 or 48 "x"
AnchorMd5Table ==
    (<<"T",".">> \o Rep("x", 48) :> <<"0","A","Y","z","n","d","q","q","B","O","9","1","J","Z","d","q","s","m","G","_","_","A","=","=">>) @@
    (<<"s","e","r","v","e","r","_","t","e","s","t","s",".","T",".">> \o Rep("x", 47) :> <<"F","l","5","I","O","F","e","L","D","Z","l","I","U","Q","E","e","w","I","L","i","H","Q","=","=">>) @@
    (<<"s","e","r","v","e","r","_","t","e","s","t","s",".","T",".">> \o Rep("x", 48) :> <<"r","y","v","Q","W","j","X","B","V","o","X","I","i","Q","w","h","p","1","p","p","d","g","=","=">>)

\* mutant: the padding of the base64 text is stripped
md5sum_unpadded(text) == SubSeq(Md5Table[text], 1, 22)

md5sum(text) ==
    IF text \in DOMAIN Md5Table THEN Md5Table[text] ELSE AnchorMd5Table[text]

\* mutant: the identifier is any text without "[" ([^\[]+? for \w+?)
FirstNonWord_any(s) ==
    IF \A i \in 1..Len(s) : s[i] # "[" THEN Len(s) + 1
    ELSE CHOOSE k \in 1..Len(s) :
             s[k] = "[" /\ \A i \in 1..(k - 1) : s[i] # "["

\* re.match(r"(?P<function_name>\w+?)\[(?P<params>.+)\]", s): the match is
\* anchored at the start of s only.  \w+? stops before the first character
\* that is no word character, which must be "["; .+ runs greedily over
\* the characters that are no line feed, and gives back up to the last "]".
FirstNonWord(s) ==
    IF \A i \in 1..Len(s) : s[i] \in WordChars THEN Len(s) + 1
    ELSE CHOOSE k \in 1..Len(s) :
             /\ s[k] \notin WordChars
             /\ \A i \in 1..(k - 1) : s[i] \in WordChars

DotRunEnd(s, from) ==
    IF \A i \in from..Len(s) : s[i] # "\n" THEN Len(s)
    ELSE (CHOOSE k \in from..Len(s) :
              /\ s[k] = "\n"
              /\ \A i \in from..(k - 1) : s[i] # "\n") - 1

NoMatch == [matched |-> FALSE, function_name |-> <<>>, params |-> <<>>]

ReMatchParams(s) ==
    LET k == FirstNonWord(s) IN
    IF k < 2 \/ k > Len(s) \/ s[k] # "[" THEN NoMatch
    ELSE LET e == DotRunEnd(s, k + 1)
             closers == {j \in (k + 2)..e : s[j] = "]"}
         IN  IF closers = {} THEN NoMatch
             ELSE LET j == CHOOSE x \in closers : \A y \in closers : y <= x
                  IN  [matched |-> TRUE,
                       function_name |-> SubSeq(s, 1, k - 1),
                       params |-> SubSeq(s, k + 1, j - 1)]

\* len(test_name) > 50 or set(test_name) & NETLIFY_CHAR_BLACKLIST
NeedsShortening(test_name) ==
    \/ Len(test_name) > NameLimit
    \/ CharsOf(test_name) \cap NETLIFY_CHAR_BLACKLIST # {}

\* the assertion of line 47 fails
CannotShorten(test_name) ==
    NeedsShortening(test_name) /\ ~ReMatchParams(test_name).matched

ShortTestName(test_name) ==
    IF NeedsShortening(test_name)
    THEN LET m == ReMatchParams(test_name)
         IN  Concat(<<m.function_name, <<"[">>, md5sum(m.params), <<"]">>>>)
    ELSE test_name

\* f"{self.job}_{self.module_name}.{self.class_name}.{test_name}.txt"
output_filename(self) ==
    Concat(<<self.job, <<"_">>, self.module_name, <<".">>, self.class_name,
             <<".">>, ShortTestName(self.test_name), <<".", "t", "x", "t">>>>)

(***************************************************************************)
(* Calls of output_filename on bounded test names                          *)
(***************************************************************************)

\* the longest text drawn after the leading run of "x" of a test name
MaxTailLen == 4

\* the characters of that text: a word character, the brackets, a
\* forbidden character that "." matches and one that it does not
TailAlphabet == {"a", "[", "]", ":", "\n"}

RECURSIVE TextsUpTo(_, _)
TextsUpTo(alphabet, n) ==
    IF n = 0 THEN {<<>>}
    ELSE LET shorter == TextsUpTo(alphabet, n - 1)
         IN  shorter \cup {Append(t, c) : t \in shorter, c \in alphabet}

\* lengths of the leading run: short ones, and those that bring the name
\* to either side of NameLimit
LeadLens == {0, 1, 2} \cup ((NameLimit - MaxTailLen)..(NameLimit + 1))

TestNames ==
    {Rep("x", k) \o t : k \in LeadLens, t \in TextsUpTo(TailAlphabet, MaxTailLen)}

NameCase(test_name) ==
    [module_name |-> <<"m">>, class_name |-> <<"T">>, test_name |-> test_name,
     job |-> <<"j">>, success |-> TRUE, skipped |-> FALSE,
     system_out |-> Some(<<"o">>), details |-> None, type |-> None,
     message |-> None]

NameIdle ==
    /\ n_self = NameCase(<<>>)
    /\ n_pc = "idle"
    /\ n_ret = <<>>

\* main is not running
MainIdle ==
    /\ pc = "idle"
    /\ fault = ""
    /\ filenames = <<>>
    /\ fi = 0
    /\ suite = <<>>
    /\ yielded = <<>>
    /\ nread = 0
    /\ results = <<>>
    /\ job_categories = <<>>
    /\ pages = <<>>
    /\ written = <<>>

InitName ==
    /\ n_self \in {NameCase(t) : t \in TestNames}
    /\ n_pc = "call"
    /\ n_ret = <<>>
    /\ MainIdle

OutputFilenameReturns ==
    /\ n_pc = "call"
    /\ ~CannotShorten(n_self.test_name)
    /\ n_ret' = output_filename(n_self)
    /\ n_pc' = "returned"
    /\ UNCHANGED <<n_self, mainVars>>

OutputFilenameRaises ==
    /\ n_pc = "call"
    /\ CannotShorten(n_self.test_name)
    /\ n_pc' = "raised"
    /\ UNCHANGED <<n_self, n_ret, mainVars>>

NextName == OutputFilenameReturns \/ OutputFilenameRaises

SpecName == InitName /\ [][NextName]_vars

(***************************************************************************)
(* Claims about output_filename (checked under SpecName)                   *)
(***************************************************************************)

TooLongOrForbidden(t) ==
    Len(t) > 50 \/ \E i \in 1..Len(t) : t[i] \in NETLIFY_CHAR_BLACKLIST

\* job_module.class.<test part>.txt
FileNameWith(self, test_part) ==
    self.job \o <<"_">> \o self.module_name \o <<".">> \o self.class_name
        \o <<".">> \o test_part \o <<".", "t", "x", "t">>

\* t is identifier[parameters]: word characters, then the parameters
\* (any non-empty text) between the first "[" and a final "]"
IsIdentifierWithParams(t) ==
    \E k \in 2..(Len(t) - 2) :
        /\ \A i \in 1..(k - 1) : t[i] \in WordChars
        /\ t[k] = "["
        /\ t[Len(t)] = "]"

IdentifierOf(t) ==
    SubSeq(t, 1, (CHOOSE k \in 1..Len(t) :
                      t[k] = "[" /\ \A i \in 1..(k - 1) : t[i] # "[") - 1)

ParamsOf(t) == SubSeq(t, Len(IdentifierOf(t)) + 2, Len(t) - 1)

\* C8: output_filename returns <job>_<module>.<class>.<test_name>.txt with
\* the test name unchanged when it has at most 50 characters and no
\* forbidden character; when the test name is longer or holds a forbidden
\* character and is identifier[parameters], the parameters between the
\* brackets are replaced by the base64 text of their MD5 digest, the
\* identifier and the brackets being kept, and the text between the
\* brackets is not the raw parameter text.
C8_OutputFilename ==
    n_pc \in {"returned", "raised"} =>
        LET t == n_self.test_name IN
        /\ ~TooLongOrForbidden(t) =>
               /\ n_pc = "returned"
               /\ n_ret = FileNameWith(n_self, t)
        /\ (TooLongOrForbidden(t) /\ IsIdentifierWithParams(t)) =>
               /\ n_pc = "returned"
               /\ n_ret = FileNameWith(n_self,
                      IdentifierOf(t) \o <<"[">> \o md5sum(ParamsOf(t))
                          \o <<"]">>)
               /\ md5sum(ParamsOf(t)) # ParamsOf(t)

\* C9 as stated: a test name that is longer than 50 characters or holds a
\* forbidden character, and does not end with bracketed parameters, makes
\* output_filename fail (nothing is returned).
C9_NoSuffixIsFatal ==
    (/\ n_pc \in {"returned", "raised"}
     /\ TooLongOrForbidden(n_self.test_name)
     /\ ~IsIdentifierWithParams(n_self.test_name)) => n_pc = "raised"

\* t begins with word characters, "[", a non-empty text and "]"; anything
\* may follow
StartsWithBracketed(t) ==
    \E k \in 2..Len(t), j \in 4..Len(t) :
        /\ j >= k + 2
        /\ \A i \in 1..(k - 1) : t[i] \in WordChars
        /\ t[k] = "["
        /\ t[j] = "]"

\* C9 (amended): a test name that is longer than 50 characters or holds a
\* forbidden character, and does not begin with an identifier followed by
\* bracketed parameters (word characters, "[", some text, "]"), makes
\* output_filename fail: nothing is returned.  Bracketed parameters need
\* not end the name.
C9_NoLeadingParamsIsFatal ==
    (/\ n_pc \in {"returned", "raised"}
     /\ TooLongOrForbidden(n_self.test_name)
     /\ ~StartsWithBracketed(n_self.test_name)) => n_pc = "raised"

C9_Witness ==
    /\ n_pc = "raised"
    /\ Len(n_self.test_name) > 50
    /\ ~StartsWithBracketed(n_self.test_name)

\* the length of a file name whose test part has NameLimit characters
UnshortenedBound(self) == Len(FileNameWith(self, <<>>)) + 50

\* C10 as stated: the file name of a test name that is longer than 50
\* characters or holds a forbidden character is bounded by a constant that
\* does not depend on the length of the test name: it is no longer than
\* the file name of a test name of 50 characters.  (For any other constant
\* B an identifier of B word characters gives a longer file name.)
C10_BoundedLength ==
    (n_pc = "returned" /\ TooLongOrForbidden(n_self.test_name)) =>
        Len(n_ret) <= UnshortenedBound(n_self)

\* the characters of the base64 text of an MD5 digest
Md5Base64Len == 24

\* the number of characters of t before its first "["
LeadLen(t) ==
    CHOOSE k \in 0..Len(t) :
        /\ \A i \in 1..k : t[i] # "["
        /\ k = Len(t) \/ t[k + 1] = "["

\* C10 (amended): the file name returned for a test name that is longer
\* than 50 characters or holds a forbidden character has the length of
\* job, module, class and of the identifier before the first "[", plus 33
\* (the digest text and the fixed characters): it does not depend on the
\* length of the parameters, and grows with the identifier.
C10_LengthFromIdentifier ==
    (n_pc = "returned" /\ TooLongOrForbidden(n_self.test_name)) =>
        Len(n_ret) = Len(n_self.job) + Len(n_self.module_name)
                     + Len(n_self.class_name) + LeadLen(n_self.test_name)
                     + Md5Base64Len + 9

C10_Witness ==
    /\ n_pc = "returned"
    /\ Len(n_self.test_name) > 50
    /\ Len(n_ret) > UnshortenedBound(n_self)

(***************************************************************************)
(* iter_job_results                                                        *)
(***************************************************************************)

\* characters that str.rstrip() strips
Whitespace == {" ", "\t", "\n", "\r", "\f"}

\* mutant: nothing is stripped
rstrip_nothing(s) == s

RECURSIVE rstrip(_)
rstrip(s) ==
    IF s # <<>> /\ s[Len(s)] \in Whitespace
    THEN rstrip(SubSeq(s, 1, Len(s) - 1))
    ELSE s

startswith(s, prefix) ==
    Len(prefix) <= Len(s) /\ SubSeq(s, 1, Len(prefix)) = prefix

StartsWithAt(s, i, lit) ==
    i >= 1 /\ i + Len(lit) - 1 <= Len(s)
           /\ SubSeq(s, i, i + Len(lit) - 1) = lit

CharAt(s, i, set) == i >= 1 /\ i <= Len(s) /\ s[i] \in set

NoLineFeed(s, from, to) == \A i \in from..to : s[i] # "\n"

\* (stable|release|devel|devel_release)
Channels ==
    { <<"s","t","a","b","l","e">>,
      <<"r","e","l","e","a","s","e">>,
      <<"d","e","v","e","l">>,
      <<"d","e","v","e","l","_","r","e","l","e","a","s","e">> }

\* "/pytest.xml" of the pattern at position i: its "." is any character
\* but a line feed
PytestXmlAt(s, i) ==
    /\ StartsWithAt(s, i, <<"/","p","y","t","e","s","t">>)
    /\ i + 7 <= Len(s) /\ s[i + 7] # "\n"
    /\ StartsWithAt(s, i + 8, <<"x", "m", "l">>)

\* [ _][(]?(stable|release|devel|devel_release)[)]?/pytest.xml at position
\* p; the optional (.gz) and the end of the name are not constrained
ChannelAt(s, p) ==
    /\ CharAt(s, p, {" ", "_"})
    /\ \E open \in {0, 1}, ch \in Channels, close \in {0, 1} :
           /\ open = 1 => CharAt(s, p + 1, {"("})
           /\ StartsWithAt(s, p + 1 + open, ch)
           /\ close = 1 => CharAt(s, p + 1 + open + Len(ch), {")"})
           /\ PytestXmlAt(s, p + 1 + open + Len(ch) + close)

\* pytest[ -]results[ _] at position q; the name group starts at q + 15
ResultsAt(s, q) ==
    /\ StartsWithAt(s, q, <<"p","y","t","e","s","t">>)
    /\ CharAt(s, q + 6, {" ", "-"})
    /\ StartsWithAt(s, q + 7, <<"r","e","s","u","l","t","s">>)
    /\ CharAt(s, q + 14, {" ", "_"})

\* the positions where the name group may end before the channel
NameEnds(s, q) ==
    {p \in (q + 15)..Len(s) : NoLineFeed(s, q + 15, p - 1) /\ ChannelAt(s, p)}

\* the positions where the pattern may start: 1, or after a "/" that
\* (.*/)? consumed
PatternStarts(s) ==
    {q \in 1..Len(s) :
        /\ q = 1 \/ (s[q - 1] = "/" /\ NoLineFeed(s, 1, q - 2))
        /\ ResultsAt(s, q)
        /\ NameEnds(s, q) # {}}

Max(S) == CHOOSE x \in S : \A y \in S : y <= x

\* re.match(r"(.*/)?pytest[ -]results[ _](?P<name>.*)"
\*          r"[ _][(]?(stable|release|devel|devel_release)[)]?/pytest.xml(.gz)?",
\*          str(job_file_name)): both .* are greedy, so the match found
\* first has the longest prefix and then the longest name
ReMatchJobFileName(s) ==
    IF PatternStarts(s) = {} THEN [matched |-> FALSE, name |-> <<>>]
    ELSE LET q == Max(PatternStarts(s))
             p == Max(NameEnds(s, q))
         IN  [matched |-> TRUE, name |-> SubSeq(s, q + 15, p - 1)]

\* classname.rsplit(".", 1)
Dots(s) == {i \in 1..Len(s) : s[i] = "."}

\* child.attrib of an element without attributes
NoAttrib == [type |-> None, message |-> None, other |-> FALSE]

\* the locals of one iteration of the loop over the cases (lines 74-78)
CaseStart ==
    [success |-> TRUE, skipped |-> FALSE, details |-> None,
     system_out |-> None, extra |-> NoAttrib, fault |-> ""]

\* mutant: a child of an unknown tag is passed over
ChildStep_lenient(st, child) ==
    IF child.tag = "skipped"
    THEN [st EXCEPT !.success = TRUE, !.skipped = TRUE, !.details = None,
                    !.extra = child.attrib]
    ELSE IF child.tag \in {"failure", "error"}
    THEN [st EXCEPT !.success = FALSE, !.skipped = FALSE,
                    !.details = child.text, !.extra = child.attrib]
    ELSE IF child.tag = "system-out"
    THEN [st EXCEPT !.system_out = child.text]
    ELSE st

\* mutant: a skipped child leaves success and details as they are
ChildStep_skipped_keeps(st, child) ==
    IF st.fault # "" THEN st
    ELSE IF child.tag = "skipped"
    THEN [st EXCEPT !.skipped = TRUE, !.extra = child.attrib]
    ELSE IF child.tag \in {"failure", "error"}
    THEN [st EXCEPT !.success = FALSE, !.skipped = FALSE,
                    !.details = child.text, !.extra = child.attrib]
    ELSE IF child.tag = "system-out"
    THEN IF ~st.system_out.some
         THEN [st EXCEPT !.system_out = child.text]
         ELSE IF ~child.text.some
         THEN [st EXCEPT !.fault = "AttributeError: child.text is None"]
         ELSE IF startswith(child.text.val, rstrip(st.system_out.val))
         THEN [st EXCEPT !.system_out = child.text]
         ELSE [st EXCEPT !.fault = "AssertionError: Duplicate system-out tag"]
    ELSE [st EXCEPT !.fault = "AssertionError: child"]

\* one iteration of the loop over the children of a case (lines 79-99)
ChildStep(st, child) ==
    IF st.fault # "" THEN st
    ELSE IF child.tag = "skipped"
    THEN [st EXCEPT !.success = TRUE, !.skipped = TRUE, !.details = None,
                    !.extra = child.attrib]
    ELSE IF child.tag \in {"failure", "error"}
    THEN [st EXCEPT !.success = FALSE, !.skipped = FALSE,
                    !.details = child.text, !.extra = child.attrib]
    ELSE IF child.tag = "system-out"
    THEN IF ~st.system_out.some
         THEN [st EXCEPT !.system_out = child.text]
         ELSE IF ~child.text.some
         THEN [st EXCEPT !.fault = "AttributeError: child.text is None"]
         ELSE IF startswith(child.text.val, rstrip(st.system_out.val))
         THEN [st EXCEPT !.system_out = child.text]
         ELSE [st EXCEPT !.fault = "AssertionError: Duplicate system-out tag"]
    ELSE [st EXCEPT !.fault = "AssertionError: child"]

RECURSIVE ChildLoop(_, _)
ChildLoop(st, children) ==
    IF children = <<>> THEN st
    ELSE ChildLoop(ChildStep(st, Head(children)), Tail(children))

\* mutant: no case element is skipped
SkipsCase_never(case) == FALSE

\* line 71
SkipsCase(case) == ~case.has_name

\* mutant: the file name is not checked, and is the job
IterCase_any_file_name(job_file_name, case) ==
    LET st == ChildLoop(CaseStart, case.children)
        noResult == [fault |-> "", result |-> <<>>]
    IN  IF st.fault # "" THEN [noResult EXCEPT !.fault = st.fault]
        ELSE IF Dots(case.classname) = {}
        THEN [noResult EXCEPT !.fault = "ValueError: classname"]
        ELSE LET d == Max(Dots(case.classname)) IN
             [fault |-> "",
              result |->
                  [module_name |-> SubSeq(case.classname, 1, d - 1),
                   class_name |->
                       SubSeq(case.classname, d + 1, Len(case.classname)),
                   test_name |-> case.name,
                   job |-> job_file_name,
                   success |-> st.success,
                   skipped |-> st.skipped,
                   system_out |-> st.system_out,
                   details |-> st.details,
                   type |-> st.extra.type,
                   message |-> st.extra.message]]

\* the body of the loop over the cases for a case with a name (lines
\* 74-118): the fault raised, or the CaseResult yielded
IterCase(job_file_name, case) ==
    LET st == ChildLoop(CaseStart, case.children)
        m == ReMatchJobFileName(job_file_name)
        noResult == [fault |-> "", result |-> <<>>]
    IN  IF st.fault # "" THEN [noResult EXCEPT !.fault = st.fault]
        ELSE IF Dots(case.classname) = {}
        THEN [noResult EXCEPT !.fault = "ValueError: classname"]
        ELSE IF ~m.matched
        THEN [noResult EXCEPT !.fault = "AssertionError: job_file_name"]
        ELSE IF st.extra.other
        THEN [noResult EXCEPT !.fault = "TypeError: unexpected keyword"]
        ELSE LET d == Max(Dots(case.classname)) IN
             [fault |-> "",
              result |->
                  [module_name |-> SubSeq(case.classname, 1, d - 1),
                   class_name |->
                       SubSeq(case.classname, d + 1, Len(case.classname)),
                   test_name |-> case.name,
                   job |-> m.name,
                   success |-> st.success,
                   skipped |-> st.skipped,
                   system_out |-> st.system_out,
                   details |-> st.details,
                   type |-> st.extra.type,
                   message |-> st.extra.message]]

(***************************************************************************)
(* Order of texts, sorted() and group_by                                   *)
(***************************************************************************)

\* ASCII characters (all but backslash and backquote) in the order of their code
\* points
AsciiOrder ==
    <<
       "	", "\n", "\r", " ", "!", "\"", "#", "$", "%", "&", "'", "(",
       ")", "*", "+", ",", "-", ".", "/", "0", "1", "2", "3", "4",
       "5", "6", "7", "8", "9", ":", ";", "<", "=", ">", "?", "@",
       "A", "B", "C", "D", "E", "F", "G", "H", "I", "J", "K", "L",
       "M", "N", "O", "P", "Q", "R", "S", "T", "U", "V", "W", "X",
       "Y", "Z", "[", "]", "^", "_", "a", "b", "c", "d",
       "e", "f", "g", "h", "i", "j", "k", "l", "m", "n", "o", "p",
       "q", "r", "s", "t", "u", "v", "w", "x", "y", "z", "{", "|",
       "}", "~" >>

Ord(c) == CHOOSE i \in 1..Len(AsciiOrder) : AsciiOrder[i] = c

Min(a, b) == IF a <= b THEN a ELSE b

\* a < b for two str
StrLess(a, b) ==
    \E i \in 1..(Min(Len(a), Len(b)) + 1) :
        /\ SubSeq(a, 1, i - 1) = SubSeq(b, 1, i - 1)
        /\ i <= Len(b)
        /\ i <= Len(a) => Ord(a[i]) < Ord(b[i])

\* a < b for two tuples of str
RECURSIVE TupleLess(_, _)
TupleLess(a, b) ==
    IF b = <<>> THEN FALSE
    ELSE IF a = <<>> THEN TRUE
    ELSE IF Head(a) = Head(b) THEN TupleLess(Tail(a), Tail(b))
    ELSE StrLess(Head(a), Head(b))

\* sorted(set of str)
RECURSIVE SortedTexts(_)
SortedTexts(set) ==
    IF set = {} THEN <<>>
    ELSE LET least == CHOOSE x \in set : \A y \in set \ {x} : StrLess(x, y)
         IN  <<least>> \o SortedTexts(set \ {least})

\* mutant: the items in the order of insertion
SortedItems_insertion_order(items) == items

\* sorted(d.items()) for a dict d with str keys: a dict is the sequence of
\* its (key, value) pairs in insertion order
SortedItems(items) == SortSeq(items, LAMBDA x, y : StrLess(x[1], y[1]))

\* the same for a dict whose keys are tuples of str
SortedTupleItems(items) ==
    SortSeq(items, LAMBDA x, y : TupleLess(x[1], y[1]))

\* mutant: the value replaces the values of its key
SetDefaultAppend_replace(groups, k, value) ==
    IF \E i \in 1..Len(groups) : groups[i][1] = k
    THEN LET i == CHOOSE i \in 1..Len(groups) : groups[i][1] = k
         IN  [groups EXCEPT ![i][2] = <<value>>]
    ELSE Append(groups, <<k, <<value>>>>)

\* groups.setdefault(k, []).append(value)
SetDefaultAppend(groups, k, value) ==
    IF \E i \in 1..Len(groups) : groups[i][1] = k
    THEN LET i == CHOOSE i \in 1..Len(groups) : groups[i][1] = k
         IN  [groups EXCEPT ![i][2] = Append(@, value)]
    ELSE Append(groups, <<k, <<value>>>>)

RECURSIVE GroupLoop(_, _)
GroupLoop(groups, keyed) ==
    IF keyed = <<>> THEN groups
    ELSE GroupLoop(SetDefaultAppend(groups, Head(keyed)[1], Head(keyed)[2]),
                   Tail(keyed))

\* group_by(list_, key)
group_by(list_, key(_)) ==
    GroupLoop(<<>>, [i \in 1..Len(list_) |-> <<key(list_[i]), list_[i]>>])

\* d[k] for a dict d that has the key k
Lookup(items, k) ==
    items[CHOOSE i \in 1..Len(items) : items[i][1] = k][2]

HasKey(items, k) == \E i \in 1..Len(items) : items[i][1] = k

\* sub in s
Contains(s, sub) == \E i \in 1..(Len(s) + 1) : StartsWithAt(s, i, sub)

endswith(s, suffix) ==
    Len(suffix) <= Len(s)
        /\ SubSeq(s, Len(s) - Len(suffix) + 1, Len(s)) = suffix

\* {f(x) for x in seq}
Range(seq) == {seq[i] : i \in 1..Len(seq)}

\* bool(text) for an Optional[str]
Truthy(opt) == opt.some /\ opt.val # <<>>

(***************************************************************************)
(* build_test_table                                                        *)
(***************************************************************************)

PytestSkip == <<"p","y","t","e","s","t",".","s","k","i","p">>
PytestXfail == <<"p","y","t","e","s","t",".","x","f","a","i","l">>

\* the anchors that are hashed
AnchorLimit == 50

\* mutant: success is looked at before skipped
CellClass_success_first(result) ==
    IF result.success THEN "success"
    ELSE IF result.skipped THEN "skipped"
    ELSE "failure"

\* lines 249-271: the class of the cell of a result
CellClass(result) ==
    IF result.skipped
    THEN IF result.type = Some(PytestXfail)
         THEN "expected-failure"
         ELSE "skipped"
    ELSE IF result.success THEN "success"
    ELSE "failure"

\* lines 249-271: the local text
CellText(result) ==
    IF result.skipped
    THEN IF result.type = Some(PytestSkip) THEN Some(<<"s">>)
         ELSE IF result.type = Some(PytestXfail) THEN Some(<<"X">>)
         ELSE result.type
    ELSE IF result.success
    THEN IF Truthy(result.type) THEN result.type ELSE Some(<<".">>)
    ELSE IF Truthy(result.type) THEN result.type ELSE Some(<<"f">>)

\* mutant: the default of a missing text is that of a skipped result
TextOrQuestion_s(text) == IF Truthy(text) THEN text.val ELSE <<"s">>

\* text or "?"
TextOrQuestion(text) == IF Truthy(text) THEN text.val ELSE <<"?">>

DeselectedCell ==
    [class |-> "deselected", text |-> <<"d">>, href |-> None, title |-> None]

\* lines 238-280: the cell of job_name in the row of a test, or the fault
BuildCell(results_by_job, job_name) ==
    IF ~HasKey(results_by_job, job_name)
    THEN [fault |-> "", cell |-> DeselectedCell]
    ELSE IF Len(Lookup(results_by_job, job_name)) # 1
    THEN [fault |-> "ValueError: (result,)", cell |-> DeselectedCell]
    ELSE LET result == Lookup(results_by_job, job_name)[1] IN
         IF Truthy(result.system_out) /\ CannotShorten(result.test_name)
         THEN [fault |-> "AssertionError: File name is too long",
               cell |-> DeselectedCell]
         ELSE [fault |-> "",
               cell |->
                   [class |-> CellClass(result),
                    text |-> TextOrQuestion(CellText(result)),
                    href |-> IF Truthy(result.system_out)
                             THEN Some(<<".", "/">> \o output_filename(result))
                             ELSE None,
                    title |-> IF Truthy(result.message)
                              THEN result.message ELSE None]]

\* mutant: the faults are swallowed
FirstFault_none(items) == ""

\* the first fault of a sequence of records with a fault field, or ""
FirstFault(items) ==
    IF \A i \in 1..Len(items) : items[i].fault = "" THEN ""
    ELSE items[CHOOSE i \in 1..Len(items) :
                   /\ items[i].fault # ""
                   /\ \A j \in 1..(i - 1) : items[j].fault = ""].fault

\* mutant: one cell per result of the test, none for the other columns
BuildTestRow_results_only(jobs, class_name, test_name, test_results) ==
    LET results_by_job == group_by(test_results, LAMBDA r : r.job)
        built == [i \in 1..Len(test_results) |->
                     BuildCell(results_by_job, test_results[i].job)]
    IN  [fault |-> FirstFault(built),
         kind |-> "test",
         id |-> Concat(<<class_name, <<".">>, test_name>>),
         text |-> test_name,
         cells |-> [i \in 1..Len(test_results) |-> built[i].cell]]

\* lines 224-280: the row of a test
BuildTestRow(jobs, qualified_class_name, test_name, test_results) ==
    LET anchor == Concat(<<qualified_class_name, <<".">>, test_name>>)
        row_anchor == IF Len(anchor) >= AnchorLimit THEN md5sum(anchor)
                      ELSE anchor
        results_by_job == group_by(test_results, LAMBDA r : r.job)
        built == [i \in 1..Len(jobs) |-> BuildCell(results_by_job, jobs[i])]
    IN  [fault |-> FirstFault(built),
         kind |-> "test",
         id |-> row_anchor,
         text |-> test_name,
         cells |-> [i \in 1..Len(jobs) |-> built[i].cell]]

\* lines 183-188: the row of the job names
JobRow(jobs) ==
    [fault |-> "", kind |-> "jobs", id |-> <<>>, text |-> <<>>,
     cells |-> [i \in 1..Len(jobs) |->
                   [class |-> "job-name", text |-> jobs[i], href |-> None,
                    title |-> None]]]

\* lines 190-280: the rows of one (module, class) group
BuildClassRows(jobs, multiple_modules, key, class_results) ==
    LET qualified_class_name ==
            IF multiple_modules THEN Concat(<<key[1], <<".">>, key[2]>>)
            ELSE key[2]
        results_by_test == SortedItems(group_by(class_results,
                                                LAMBDA r : r.test_name))
    IN  <<[fault |-> "", kind |-> "class", id |-> qualified_class_name,
           text |-> qualified_class_name, cells |-> <<>>],
          JobRow(jobs)>>
        \o [i \in 1..Len(results_by_test) |->
               BuildTestRow(jobs, qualified_class_name, results_by_test[i][1],
                            results_by_test[i][2])]

\* build_test_table(jobs, results): the rows of the table, or the fault
build_test_table(jobs, results_) ==
    LET multiple_modules ==
            Cardinality({r.module_name : r \in Range(results_)}) > 1
        groups == SortedTupleItems(
                      group_by(results_,
                               LAMBDA r : <<r.module_name, r.class_name>>))
        rows == Concat([i \in 1..Len(groups) |->
                           BuildClassRows(jobs, multiple_modules,
                                          groups[i][1], groups[i][2])])
    IN  [fault |-> FirstFault(rows), rows |-> rows]

(***************************************************************************)
(* main: the list comprehension over the record files (lines 432-436)      *)
(***************************************************************************)

\* the next file name is taken: parse_xml_file, then (suite,) = job.getroot()
OpenFile ==
    /\ pc = "parse"
    /\ fi < Len(filenames)
    /\ fi' = fi + 1
    /\ suite' = <<>>
    /\ yielded' = <<>>
    /\ UNCHANGED <<pc, fault, filenames, nread, results>>
    /\ UNCHANGED <<nameVars, pageVars>>

\* the file is no XML document, or its root has not exactly one child
OpenFileFaults ==
    /\ pc = "parse"
    /\ fi < Len(filenames)
    /\ \E f \in {"ParseError", "ValueError: (suite,)"} : fault' = f
    /\ pc' = "aborted"
    /\ fi' = fi + 1
    /\ suite' = <<>>
    /\ yielded' = <<>>
    /\ UNCHANGED <<filenames, nread, results>>
    /\ UNCHANGED <<nameVars, pageVars>>

\* one iteration of the loop of line 70 on the next case element of the
\* suite, which is any element of pool
ReadCase(pool, bound) ==
    /\ pc = "parse"
    /\ fi >= 1
    /\ nread < bound
    /\ \E case \in pool :
         LET r == IterCase(filenames[fi], case) IN
         /\ suite' = Append(suite, case)
         /\ nread' = nread + 1
         /\ IF SkipsCase(case)
            THEN UNCHANGED <<pc, fault, yielded, results>>
            ELSE IF r.fault # ""
            THEN /\ pc' = "aborted"
                 /\ fault' = r.fault
                 /\ UNCHANGED <<yielded, results>>
            ELSE /\ yielded' = Append(yielded, r.result)
                 /\ results' = Append(results, r.result)
                 /\ UNCHANGED <<pc, fault>>
    /\ UNCHANGED <<filenames, fi>>
    /\ UNCHANGED <<nameVars, pageVars>>

\* the comprehension is exhausted; write_html_pages is called
EndInput ==
    /\ pc = "parse"
    /\ fi = Len(filenames)
    /\ pc' = "classify"
    /\ UNCHANGED <<fault, parseVars, nameVars, pageVars>>

(***************************************************************************)
(* XML elements, record file names and the start of main                  *)
(***************************************************************************)

Element(tag, attrib, text) == [tag |-> tag, attrib |-> attrib, text |-> text]

Case(has_name, classname, name, children) ==
    [has_name |-> has_name, classname |-> classname, name |-> name,
     children |-> children]

SkipAttrib ==
    [type |-> Some(<<"p","y","t","e","s","t",".","s","k","i","p">>),
     message |-> Some(<<"w">>), other |-> FALSE]

\* a record file of job a, and a file whose name is no record file name
RecordA == <<"p","y","t","e","s","t","-","r","e","s","u","l","t","s","_","a","_","(","s","t","a","b","l","e",")","/","p","y","t","e","s","t",".","x","m","l">>
NotARecord == <<"r","e","s","u","l","t","s","_","a","/","p","y","t","e","s","t",".","x","m","l">>

MainStart(argv) ==
    /\ pc = "parse"
    /\ fault = ""
    /\ filenames = argv
    /\ fi = 0
    /\ suite = <<>>
    /\ yielded = <<>>
    /\ nread = 0
    /\ results = <<>>
    /\ job_categories = <<>>
    /\ pages = <<>>
    /\ written = <<>>

(***************************************************************************)
(* write_html_pages, write_html_index, write_test_outputs, write_assets    *)
(***************************************************************************)

ClientTests == <<"c","l","i","e","n","t","_","t","e","s","t","s">>
ServerTests == <<"s","e","r","v","e","r","_","t","e","s","t","s">>

\* job.endswith(("-atheme", "-anope", "-dlk"))
ServicesSuffixes ==
    { <<"-","a","t","h","e","m","e">>,
      <<"-","a","n","o","p","e">>,
      <<"-","d","l","k">> }

\* mutant: skipped results are left out of the classification
is_client_nonskipped(job, results_) ==
    \E r \in Range(results_) :
        Contains(r.module_name, ClientTests) /\ r.job = job /\ ~r.skipped

\* lines 297-300
is_client(job, results_) ==
    \E r \in Range(results_) :
        Contains(r.module_name, ClientTests) /\ r.job = job

\* lines 301-304
is_server(job, results_) ==
    \E r \in Range(results_) :
        Contains(r.module_name, ServerTests) /\ r.job = job

\* mutant: the assertion of line 305 is missing
ClassifyJob_unchecked(job, results_) ==
    IF is_server(job, results_)
    THEN [fault |-> "", category |-> "server"]
    ELSE [fault |-> "", category |-> "client"]

\* lines 305-313: the category of a job, or the assertion that fails
ClassifyJob(job, results_) ==
    IF is_client(job, results_) = is_server(job, results_)
    THEN [fault |-> "AssertionError: (job, is_client, is_server)",
          category |-> ""]
    ELSE IF \E suffix \in ServicesSuffixes : endswith(job, suffix)
    THEN IF is_server(job, results_)
         THEN [fault |-> "", category |-> "server-with-services"]
         ELSE [fault |-> "AssertionError: is_server", category |-> ""]
    ELSE IF is_server(job, results_)
    THEN [fault |-> "", category |-> "server"]
    ELSE [fault |-> "", category |-> "client"]

\* the loop of lines 296-313: job_categories as far as it is filled, and
\* the fault that ended the loop
RECURSIVE ClassifyLoop(_, _, _)
ClassifyLoop(categories, jobs, results_) ==
    IF jobs = <<>> THEN [fault |-> "", categories |-> categories]
    ELSE LET c == ClassifyJob(Head(jobs), results_) IN
         IF c.fault # "" THEN [fault |-> c.fault, categories |-> categories]
         ELSE ClassifyLoop(Append(categories, <<Head(jobs), c.category>>),
                           Tail(jobs), results_)

\* mutant: the jobs in the order of their first result
AllJobs_first_seen(results_) ==
    LET groups == group_by(results_, LAMBDA r : r.job)
    IN  [i \in 1..Len(groups) |-> groups[i][1]]

\* line 293
AllJobs(results_) == SortedTexts({r.job : r \in Range(results_)})

\* a file of the output directory
FileRec(name, kind, title, jobs, rows, links, text) ==
    [name |-> name, kind |-> kind, title |-> title, jobs |-> jobs,
     rows |-> rows, links |-> links, text |-> text]

Xhtml == <<".","x","h","t","m","l">>
ModuleType == <<"m","o","d","u","l","e">>
JobType == <<"j","o","b">>

\* mutant: the skipped results count too
module_categories_all(categories, results_, module_name) ==
    {Lookup(categories, r.job) :
        r \in {x \in Range(results_) : x.module_name = module_name}}

\* lines 319-323
module_categories(categories, results_, module_name) ==
    {Lookup(categories, r.job) :
        r \in {x \in Range(results_) :
                  x.module_name = module_name /\ ~x.skipped}}

\* mutant: every job is a column
module_jobs_all(categories, results_, module_name) == AllJobs(results_)

\* line 325
module_jobs(categories, results_, module_name) ==
    SelectSeq(AllJobs(results_),
              LAMBDA job : Lookup(categories, job)
                               \in module_categories(categories, results_,
                                                     module_name))

\* lines 317-329 for one module: the page file, or the fault of
\* build_test_table (the module and its classes are importable)
ModulePage(categories, results_, module_name, module_results) ==
    LET columns == module_jobs(categories, results_, module_name)
        table == build_test_table(columns, module_results)
    IN  [fault |-> table.fault,
         file |-> FileRec(module_name \o Xhtml, "module", module_name,
                          columns, table.rows, <<>>, <<>>)]

\* mutant: the results of the job alone
JobPage_job_alone(results_, job) ==
    LET job_results == SelectSeq(results_, LAMBDA r : r.job = job)
        table == build_test_table(<<job>>, job_results)
    IN  [fault |-> table.fault,
         file |-> FileRec(job \o Xhtml, "job", job, <<job>>, table.rows,
                          <<>>, <<>>)]

\* lines 334-341 for one job
JobPage(results_, job) ==
    LET job_results ==
            SelectSeq(results_,
                      LAMBDA r : r.job = job
                                 \/ startswith(r.job, job \o <<"-">>))
        columns == SortedTexts({r.job : r \in Range(job_results)})
        table == build_test_table(columns, job_results)
    IN  [fault |-> table.fault,
         file |-> FileRec(job \o Xhtml, "job", job, columns, table.rows,
                          <<>>, <<>>)]

\* the items of a loop that were completed before its first fault
BeforeFault(items) ==
    IF FirstFault(items) = "" THEN items
    ELSE SubSeq(items, 1,
                (CHOOSE i \in 1..Len(items) :
                     /\ items[i].fault # ""
                     /\ \A j \in 1..(i - 1) : items[j].fault = "") - 1)

FilesOf(items) == [i \in 1..Len(items) |-> items[i].file]

PagesOf(page_type, items) ==
    [i \in 1..Len(items) |->
        <<page_type, items[i].file.title, items[i].file.name>>]

\* lines 289-313 of write_html_pages
Classify ==
    /\ pc = "classify"
    /\ LET loop == ClassifyLoop(<<>>, AllJobs(results), results) IN
       /\ job_categories' = loop.categories
       /\ fault' = loop.fault
       /\ pc' = IF loop.fault = "" THEN "module_pages" ELSE "aborted"
    /\ UNCHANGED <<pages, written, parseVars, nameVars>>

\* lines 317-330 of write_html_pages
WriteModulePages ==
    /\ pc = "module_pages"
    /\ LET results_by_module ==
               SortedItems(group_by(results, LAMBDA r : r.module_name))
           built == [i \in 1..Len(results_by_module) |->
                        ModulePage(job_categories, results,
                                   results_by_module[i][1],
                                   results_by_module[i][2])]
           completed == BeforeFault(built)
       IN  /\ written' = written \o FilesOf(completed)
           /\ pages' = pages \o PagesOf(ModuleType, completed)
           /\ fault' = FirstFault(built)
           /\ pc' = IF FirstFault(built) = "" THEN "job_pages" ELSE "aborted"
    /\ UNCHANGED <<job_categories, parseVars, nameVars>>

\* mutant: the jobs of every category
JobsOfCategory_any(categories, category) ==
    [i \in 1..Len(categories) |-> categories[i][1]]

\* the jobs of a category, in the order of job_categories (line 333)
JobsOfCategory(categories, category) ==
    LET items == SelectSeq(categories, LAMBDA item : item[2] = category)
    IN  [i \in 1..Len(items) |-> items[i][1]]

\* lines 332-344 of write_html_pages
WriteJobPages ==
    /\ pc = "job_pages"
    /\ LET page_jobs == JobsOfCategory(job_categories, "server")
                            \o JobsOfCategory(job_categories, "client")
           built == [i \in 1..Len(page_jobs) |-> JobPage(results, page_jobs[i])]
           completed == BeforeFault(built)
       IN  /\ written' = written \o FilesOf(completed)
           /\ pages' = pages \o PagesOf(JobType, completed)
           /\ fault' = FirstFault(built)
           /\ pc' = IF FirstFault(built) = "" THEN "index" ELSE "aborted"
    /\ UNCHANGED <<job_categories, parseVars, nameVars>>

IndexXhtml == <<"i","n","d","e","x",".","x","h","t","m","l">>
StyleCss == <<"s","t","y","l","e",".","c","s","s">>

\* write_html_index: the pages are sorted and listed by type, each with a
\* link to its file
WriteHtmlIndex ==
    /\ pc = "index"
    /\ LET sorted == SortSeq(pages, TupleLess)
           module_pages == SelectSeq(sorted, LAMBDA pg : pg[1] = ModuleType)
           job_pages == SelectSeq(sorted, LAMBDA pg : pg[1] = JobType)
           links == [i \in 1..Len(module_pages) |->
                        <<module_pages[i][2],
                          <<".", "/">> \o module_pages[i][3]>>]
                    \o [i \in 1..Len(job_pages) |->
                           <<job_pages[i][2], <<".", "/">> \o job_pages[i][3]>>]
       IN  written' = Append(written,
                             FileRec(IndexXhtml, "index", <<>>, <<>>, <<>>,
                                     links, <<>>))
    /\ pc' = "outputs"
    /\ UNCHANGED <<fault, job_categories, pages, parseVars, nameVars>>

\* mutant: the output of a skipped result is not written
TestOutput_not_skipped(result) ==
    IF ~result.system_out.some \/ result.skipped
    THEN [fault |-> "", skip |-> TRUE, file |-> <<>>]
    ELSE IF CannotShorten(result.test_name)
    THEN [fault |-> "AssertionError: File name is too long", skip |-> FALSE,
          file |-> <<>>]
    ELSE [fault |-> "", skip |-> FALSE,
          file |-> FileRec(output_filename(result), "output", <<>>, <<>>,
                           <<>>, <<>>, result.system_out.val)]

\* write_test_outputs for one result: no file, a file, or the fault of
\* output_filename
TestOutput(result) ==
    IF ~result.system_out.some THEN [fault |-> "", skip |-> TRUE, file |-> <<>>]
    ELSE IF CannotShorten(result.test_name)
    THEN [fault |-> "AssertionError: File name is too long", skip |-> FALSE,
          file |-> <<>>]
    ELSE [fault |-> "", skip |-> FALSE,
          file |-> FileRec(output_filename(result), "output", <<>>, <<>>,
                           <<>>, <<>>, result.system_out.val)]

\* write_test_outputs
WriteTestOutputs ==
    /\ pc = "outputs"
    /\ LET built == [i \in 1..Len(results) |-> TestOutput(results[i])]
           completed == SelectSeq(BeforeFault(built), LAMBDA b : ~b.skip)
       IN  /\ written' = written \o FilesOf(completed)
           /\ fault' = FirstFault(built)
           /\ pc' = IF FirstFault(built) = "" THEN "assets" ELSE "aborted"
    /\ UNCHANGED <<job_categories, pages, parseVars, nameVars>>

\* write_assets, and main returns 0
WriteAssets ==
    /\ pc = "assets"
    /\ written' = Append(written,
                         FileRec(StyleCss, "css", <<>>, <<>>, <<>>, <<>>, <<>>))
    /\ pc' = "done"
    /\ UNCHANGED <<fault, job_categories, pages, parseVars, nameVars>>

(***************************************************************************)
(* main on two record files whose cases lie in client, server and other    *)
(* modules                                                                 *)
(***************************************************************************)

\* the case elements read in a run of main
MaxCases == 4

RecordB == <<"p","y","t","e","s","t","-","r","e","s","u","l","t","s","_","b","_","(","s","t","a","b","l","e",")","/","p","y","t","e","s","t",".","x","m","l">>

\* a passing and a skipped case of one test in a client-suite module, a
\* server-suite module and a module that is neither
MainPool ==
    {Case(TRUE, module \o <<".", "T">>, <<"t">>, children) :
        module \in {ClientTests, ServerTests, <<"m","i","s","c">>},
        children \in {<<>>, <<Element("skipped", SkipAttrib, None)>>}}

Init ==
    /\ NameIdle
    /\ MainStart(<<RecordA, RecordB>>)

Next ==
    \/ OpenFile
    \/ OpenFileFaults
    \/ ReadCase(MainPool, MaxCases)
    \/ EndInput
    \/ Classify
    \/ WriteModulePages
    \/ WriteJobPages
    \/ WriteHtmlIndex
    \/ WriteTestOutputs
    \/ WriteAssets

Spec == Init /\ [][Next]_vars

(***************************************************************************)
(* Claims about write_html_pages (checked under Spec)                      *)
(***************************************************************************)

JobsOfResults == {results[i].job : i \in 1..Len(results)}

ResultsOfJob(job) == {r \in Range(results) : r.job = job}

InClientModule(r) == Contains(r.module_name, ClientTests)
InServerModule(r) == Contains(r.module_name, ServerTests)

\* the job has a result in a client-suite module, in a server-suite module
AnyClient(job) == \E r \in ResultsOfJob(job) : InClientModule(r)
AnyServer(job) == \E r \in ResultsOfJob(job) : InServerModule(r)

\* the same, counting the results that are not skipped only
NonSkippedClient(job) ==
    \E r \in ResultsOfJob(job) : InClientModule(r) /\ ~r.skipped
NonSkippedServer(job) ==
    \E r \in ResultsOfJob(job) : InServerModule(r) /\ ~r.skipped

\* the loop that classifies the jobs has run: to its end, or to a fault
ClassifyFaults ==
    {"AssertionError: (job, is_client, is_server)", "AssertionError: is_server"}

PageFaults ==
    {"ValueError: (result,)", "AssertionError: File name is too long"}

ClassifyAborted == pc = "aborted" /\ fault \in ClassifyFaults

ClassifyCompleted ==
    \/ pc \in {"module_pages", "job_pages", "index", "outputs", "assets",
               "done"}
    \/ pc = "aborted" /\ fault \in PageFaults

CategoryOf(job) == Lookup(job_categories, job)

Categorised(job) == HasKey(job_categories, job)

\* C2 as stated: for every job exactly one of "is client" and "is server"
\* must hold; when a job has results in both kinds of module, or in
\* neither, the run aborts (no page is ever written) and no job is
\* assigned a category.
C2_NoCategoryOnAbort ==
    (\E job \in JobsOfResults : AnyClient(job) = AnyServer(job)) =>
        /\ ~ClassifyCompleted
        /\ written = <<>>
        /\ job_categories = <<>>

\* C2 (amended): when a job has results in both kinds of module, or in
\* neither, the run aborts in the classification: no page is ever
\* written, and that job is never assigned a category.  The jobs sorted
\* before it are assigned theirs before the assertion fails.
C2_NoCategoryForAmbiguousJob ==
    (\E job \in JobsOfResults : AnyClient(job) = AnyServer(job)) =>
        /\ ~ClassifyCompleted
        /\ written = <<>>
        /\ pc # "parse" => (pc = "classify" \/ pc = "aborted")
        /\ \A job \in JobsOfResults :
               AnyClient(job) = AnyServer(job) => ~Categorised(job)

C2_Witness ==
    /\ ClassifyAborted
    /\ job_categories # <<>>
    /\ \E job \in JobsOfResults : AnyClient(job) /\ AnyServer(job)

\* C3 as stated: the classification of a job is computed from its results
\* that are not skipped: when every job has such results in exactly one
\* kind of module, the classification does not fail, and a job with a
\* non-skipped result in a server-suite module is classified "server"
\* whatever skipped results it has in client-suite modules.
C3_SkippedResultsDoNotClassify ==
    (/\ ClassifyAborted \/ ClassifyCompleted
     /\ \A job \in JobsOfResults :
            NonSkippedClient(job) # NonSkippedServer(job)) =>
        /\ ~ClassifyAborted
        /\ \A job \in JobsOfResults :
               /\ Categorised(job)
               /\ CategoryOf(job) =
                      IF NonSkippedServer(job) THEN "server" ELSE "client"

\* the client-suite results of the job are all skipped, and one of its
\* server-suite results is not
SkippedClientOnly(job) ==
    AnyClient(job) /\ ~NonSkippedClient(job) /\ NonSkippedServer(job)

\* C3 (amended): the classification of a job is computed from all its
\* results, the skipped ones included: when every job has results in
\* exactly one kind of module the classification does not fail and gives
\* "server" to the jobs with a result in a server-suite module; a job whose
\* results in client-suite modules are all skipped and which has a
\* non-skipped result in a server-suite module makes the run abort.
C3_SkippedResultsClassify ==
    (ClassifyAborted \/ ClassifyCompleted) =>
        /\ (\A job \in JobsOfResults : AnyClient(job) # AnyServer(job)) =>
               /\ ~ClassifyAborted
               /\ \A job \in JobsOfResults :
                      /\ Categorised(job)
                      /\ CategoryOf(job) =
                             IF AnyServer(job) THEN "server" ELSE "client"
        /\ (\E job \in JobsOfResults : SkippedClientOnly(job)) =>
               ClassifyAborted

C3_Witness ==
    /\ ClassifyAborted
    /\ \E job \in JobsOfResults : SkippedClientOnly(job)
    /\ \A job \in JobsOfResults :
           NonSkippedClient(job) # NonSkippedServer(job)

ModulePagesWritten == {f \in Range(written) : f.kind = "module"}

\* the categories of the jobs that have a non-skipped result in a module
CategoriesIn(module_name) ==
    {CategoryOf(r.job) :
        r \in {x \in Range(results) :
                  x.module_name = module_name /\ ~x.skipped}}

ColumnsAreTheJobsOfTheCategories(page) ==
    \A job \in JobsOfResults :
        job \in Range(page.jobs) <=> CategoryOf(job) \in CategoriesIn(page.title)

MixedColumns(page) ==
    /\ \E job \in Range(page.jobs) : CategoryOf(job) = "client"
    /\ \E job \in Range(page.jobs) :
           CategoryOf(job) \in {"server", "server-with-services"}

\* C4 as stated: on every module page a job is a column if and only if
\* its category is one of the categories of the jobs that have a
\* non-skipped result in that module, and no module page has both a
\* client column and a server (or server-with-services) column.
C4_ColumnsOfOneKind ==
    \A page \in ModulePagesWritten :
        /\ ColumnsAreTheJobsOfTheCategories(page)
        /\ ~MixedColumns(page)

\* C4 (amended): on every module page a job is a column if and only if
\* its category is one of the categories of the jobs that have a
\* non-skipped result in that module; the page of a module whose name
\* contains "client_tests" or "server_tests" never has both a client
\* column and a server (or server-with-services) column.
C4_ColumnsOfOneKindInSuiteModules ==
    \A page \in ModulePagesWritten :
        /\ ColumnsAreTheJobsOfTheCategories(page)
        /\ (Contains(page.title, ClientTests)
                \/ Contains(page.title, ServerTests)) => ~MixedColumns(page)

C4_Witness ==
    /\ pc = "done"
    /\ \E page \in ModulePagesWritten : MixedColumns(page)
    /\ \E page \in ModulePagesWritten :
           \E job \in JobsOfResults : job \notin Range(page.jobs)

(***************************************************************************)
(* The pipeline on the records of two jobs with tests in several modules   *)
(* and classes of the server suite                                         *)
(***************************************************************************)

MaxOrderCases == 3

ServerTestsX == ServerTests \o <<".", "x">>

\* passing cases of two modules, two classes and two tests, a skipped one,
\* and one with an output whose name cannot be a file name
OrderPool ==
    {Case(TRUE, ServerTests \o <<".", "T">>, <<"t">>, <<>>),
     Case(TRUE, ServerTests \o <<".", "T">>, <<"u">>, <<>>),
     Case(TRUE, ServerTests \o <<".", "U">>, <<"t">>, <<>>),
     Case(TRUE, ServerTestsX \o <<".", "T">>, <<"t">>, <<>>),
     Case(TRUE, ServerTestsX \o <<".", "T">>, <<"t">>,
          <<Element("skipped", SkipAttrib, None)>>),
     Case(TRUE, ServerTestsX \o <<".", "T">>, <<":">>,
          <<Element("system-out", NoAttrib, Some(<<"o">>))>>)}

InitOrder ==
    /\ NameIdle
    /\ MainStart(<<RecordA, RecordB>>)

NextOrder ==
    \/ OpenFile
    \/ OpenFileFaults
    \/ ReadCase(OrderPool, MaxOrderCases)
    \/ EndInput
    \/ Classify
    \/ WriteModulePages
    \/ WriteJobPages
    \/ WriteHtmlIndex
    \/ WriteTestOutputs
    \/ WriteAssets

SpecOrder == InitOrder /\ [][NextOrder]_vars

(***************************************************************************)
(* Claims about the documents of a run (checked under SpecOrder)           *)
(***************************************************************************)

\* the index written for a list of pages
IndexOf(pages_) ==
    LET sorted == SortSeq(pages_, TupleLess)
        module_pages == SelectSeq(sorted, LAMBDA pg : pg[1] = ModuleType)
        job_pages == SelectSeq(sorted, LAMBDA pg : pg[1] = JobType)
    IN  FileRec(IndexXhtml, "index", <<>>, <<>>, <<>>,
                [i \in 1..Len(module_pages) |->
                    <<module_pages[i][2], <<".", "/">> \o module_pages[i][3]>>]
                \o [i \in 1..Len(job_pages) |->
                       <<job_pages[i][2], <<".", "/">> \o job_pages[i][3]>>],
                <<>>)

\* the module pages, job pages and index that write_html_pages and
\* write_html_index write for a list of results, up to the first fault
DocumentsOf(results_) ==
    LET loop == ClassifyLoop(<<>>, AllJobs(results_), results_)
        by_module == SortedItems(group_by(results_, LAMBDA r : r.module_name))
        m_built == [i \in 1..Len(by_module) |->
                       ModulePage(loop.categories, results_, by_module[i][1],
                                  by_module[i][2])]
        m_done == BeforeFault(m_built)
        page_jobs == JobsOfCategory(loop.categories, "server")
                         \o JobsOfCategory(loop.categories, "client")
        j_built == [i \in 1..Len(page_jobs) |-> JobPage(results_, page_jobs[i])]
        j_done == BeforeFault(j_built)
    IN  IF loop.fault # "" THEN <<>>
        ELSE IF FirstFault(m_built) # "" THEN FilesOf(m_done)
        ELSE IF FirstFault(j_built) # ""
        THEN FilesOf(m_done) \o FilesOf(j_done)
        ELSE FilesOf(m_done) \o FilesOf(j_done)
                 \o <<IndexOf(PagesOf(ModuleType, m_done)
                                  \o PagesOf(JobType, j_done))>>

\* the module pages, job pages and index of the output directory
DocumentsWritten ==
    SelectSeq(written, LAMBDA f : f.kind \in {"module", "job", "index"})

\* write_html_pages and write_html_index have run, to the end or to a fault
DocumentsComplete ==
    \/ pc \in {"outputs", "assets", "done"}
    \/ pc = "aborted" /\ fault \in ClassifyFaults \cup PageFaults

\* the fields that tell two results of the pool apart
ResultKey(r) ==
    <<r.job, r.module_name, r.class_name, r.test_name,
      IF r.skipped THEN <<"s">> ELSE <<>>>>

\* the results in one fixed order, the decreasing one, however they were
\* read
Decreasing(results_) ==
    SortSeq(results_, LAMBDA x, y : TupleLess(ResultKey(y), ResultKey(x)))

\* C11: the module pages, job pages and index of a run depend on the
\* results read and not on the order they were read in: they are the
\* documents of the same results taken in one fixed order, so that two
\* runs on the same results, read in any two orders, write the same
\* documents.
C11_OrderIndependent ==
    DocumentsComplete =>
        DocumentsWritten = DocumentsOf(Decreasing(results))

\* the results were not read in the order of the documents: those of the
\* first job come in decreasing order of their modules
C11_Witness ==
    /\ pc = "done"
    /\ Len(results) = 3
    /\ results[1].job = results[2].job
    /\ StrLess(results[2].module_name, results[1].module_name)
    /\ results[3].job # results[1].job
    /\ results[3].class_name # results[1].class_name
    /\ Len(DocumentsWritten) = 5

\* a job reports a test twice
TestReportedTwice ==
    \E i, j \in 1..Len(results) :
        /\ i # j
        /\ results[i].job = results[j].job
        /\ results[i].module_name = results[j].module_name
        /\ results[i].class_name = results[j].class_name
        /\ results[i].test_name = results[j].test_name

\* a result has an output and a test name that cannot be shortened
OutputCannotBeNamed ==
    \E i \in 1..Len(results) :
        /\ results[i].system_out.some
        /\ TooLongOrForbidden(results[i].test_name)
        /\ ~StartsWithBracketed(results[i].test_name)

\* C12 as stated: whenever the run aborts, no file has been written.
C12_NothingWrittenOnAbort ==
    pc = "aborted" => written = <<>>

\* every job has a page of its own: none is classified server-with-services
EveryJobHasAPage ==
    \A job \in JobsOfResults :
        \A suffix \in ServicesSuffixes : ~endswith(job, suffix)

\* C12 (amended): a test reported twice by a job and an output whose test
\* name cannot be shortened are fatal when every job has a page of its
\* own: the run never reaches the index.
\* An aborted run has never written the stylesheet, and has written
\* nothing at all when the fault is raised while the records are parsed or
\* the jobs classified; when it is raised while the pages are built, the
\* pages completed before it stay in the output directory.
C12_NoStylesheetOnAbort ==
    /\ (EveryJobHasAPage /\ (TestReportedTwice \/ OutputCannotBeNamed)) =>
           pc \notin {"index", "outputs", "assets", "done"}
    /\ pc = "aborted" =>
           /\ \A i \in 1..Len(written) : written[i].kind # "css"
           /\ fault \notin PageFaults => written = <<>>
           /\ fault \in PageFaults =>
                  \A i \in 1..Len(written) :
                      written[i].kind \in {"module", "job"}

C12_Witness ==
    /\ pc = "aborted"
    /\ fault = "AssertionError: File name is too long"
    /\ OutputCannotBeNamed
    /\ ~TestReportedTwice
    /\ written # <<>>

\* the positions of the values of a list whose key is k, keys[i] being the
\* key computed for list_[i]
PositionsOf(keys, k) == {i \in 1..Len(keys) : keys[i] = k}

\* groups is the mapping that the claim describes for list_
GroupsAsSpecified(groups, list_, keys) ==
    \* no key twice, and every key of the input is a key of the mapping
    /\ \A i, j \in 1..Len(groups) : groups[i][1] = groups[j][1] => i = j
    /\ \A i \in 1..Len(keys) : \E g \in 1..Len(groups) : groups[g][1] = keys[i]
    \* under a key, the values computed to that key and no other, once each,
    \* in the order of the input
    /\ \A g \in 1..Len(groups) :
           LET at == PositionsOf(keys, groups[g][1])
               nth(n) == CHOOSE i \in at :
                             Cardinality({j \in at : j <= i}) = n
           IN  /\ at # {}
               /\ Len(groups[g][2]) = Cardinality(at)
               /\ \A n \in 1..Cardinality(at) : groups[g][2][n] = list_[nth(n)]
    \* the keys in the order of their first occurrence
    /\ \A g, h \in 1..Len(groups) :
           g < h =>
               \E i \in PositionsOf(keys, groups[g][1]) :
                   \A j \in PositionsOf(keys, groups[h][1]) : i < j

\* C14: group_by returns a mapping in which every value of the input
\* appears once, under the key computed for it, the keys in the order of
\* their first occurrence and the values of a key in the order of the
\* input; checked on the lists of results that the pages are built from,
\* grouped by module as in write_html_pages and by test as in
\* build_test_table.
C14_GroupByKeepsOrder ==
    /\ GroupsAsSpecified(group_by(results, LAMBDA r : r.module_name), results,
                         [i \in 1..Len(results) |-> results[i].module_name])
    /\ GroupsAsSpecified(group_by(results, LAMBDA r : r.test_name), results,
                         [i \in 1..Len(results) |-> results[i].test_name])

\* the pages were built from results whose first key is not the least one
\* and whose values under a key are not adjacent
C14_Witness ==
    /\ pc = "job_pages"
    /\ Len(results) = 3
    /\ results[1].module_name = ServerTestsX
    /\ results[2].module_name = ServerTests
    /\ results[3].module_name = ServerTestsX
    /\ results[1] # results[3]
    /\ Len(written) = 2

(***************************************************************************)
(* iter_job_results on one record file, for every record file name of the *)
(* naming pattern over a few job names                                     *)
(***************************************************************************)

MaxJobCases == 1

Pytest == <<"p","y","t","e","s","t">>
Results == <<"r","e","s","u","l","t","s">>
SlashPytestXml == <<"/","p","y","t","e","s","t",".","x","m","l">>

\* a plain job name, one with a hyphen and one with an underscore
JobNames == {<<"a">>, <<"a", "-", "b">>, <<"a", "_", "b">>}

\* the choices that make a record file name:
\* [prefix/]pytest{space|-}results{space|_}<job>{space|_}[(]<channel>[)]
\* /pytest.xml[.gz]
NameParts ==
    [prefix : {<<>>, <<"d", "/">>},
     sep1 : {" ", "-"},
     sep2 : {" ", "_"},
     job : JobNames,
     sep3 : {" ", "_"},
     open : {<<>>, <<"(">>},
     channel : Channels,
     close : {<<>>, <<")">>},
     gz : {<<>>, <<".", "g", "z">>}]

RecordName(parts) ==
    Concat(<<parts.prefix, Pytest, <<parts.sep1>>, Results, <<parts.sep2>>,
             parts.job, <<parts.sep3>>, parts.open, parts.channel,
             parts.close, SlashPytestXml, parts.gz>>)

JobPool ==
    {Case(TRUE, ServerTests \o <<".", "T">>, <<"t">>, <<>>),
     Case(FALSE, ServerTests \o <<".", "T">>, <<>>, <<>>)}

InitJob ==
    /\ NameIdle
    /\ \E parts \in NameParts : MainStart(<<RecordName(parts)>>)

NextJob ==
    \/ OpenFile
    \/ OpenFileFaults
    \/ ReadCase(JobPool, MaxJobCases)
    \/ EndInput

SpecJob == InitJob /\ [][NextJob]_vars

(***************************************************************************)
(* Claims about the job of a record file (checked under SpecJob)           *)
(***************************************************************************)

\* the job of every result read is the job the file name was made with
JobIsThatOf(parts) ==
    filenames = <<RecordName(parts)>> =>
        /\ fault # "AssertionError: job_file_name"
        /\ \A i \in 1..Len(results) : results[i].job = parts.job

\* C15: for every record file name of the form
\* [prefix/]pytest{space|-}results{space|_}<job>{space|_}[(]<channel>[)]
\* /pytest.xml[.gz], with <channel> any of stable, release, devel and
\* devel_release, the file is accepted and the job of every CaseResult of
\* the file is <job>: neither the channel nor the separator before it is
\* part of the job.
C15_JobOfFileName ==
    fi >= 1 => \A parts \in NameParts : JobIsThatOf(parts)

DevelRelease == <<"d","e","v","e","l","_","r","e","l","e","a","s","e">>

\* the same for the channels stable, release and devel
C15_JobOfFileNameOtherChannels ==
    fi >= 1 =>
        \A parts \in NameParts :
            parts.channel # DevelRelease => JobIsThatOf(parts)

(***************************************************************************)
(* The pipeline on a record file followed by a file whose name is no       *)
(* record file name, with cases of every shape                             *)
(***************************************************************************)

MaxShapeCases == 3

\* cases of a server-suite module (passing, with two outputs of which the
\* second extends the first or not, or has no text, or follows one without
\* text, with a child of an unknown tag), a case of a client-suite module
\* and one of another module, and a case without a name whose children are
\* of no accepted shape
ShapePool ==
    LET sT == ServerTests \o <<".", "T">>
        out(text) == Element("system-out", NoAttrib, text)
        properties == Element("properties", NoAttrib, None)
    IN  { Case(TRUE, sT, <<"t">>, <<>>),
          Case(TRUE, sT, <<"u">>,
               <<out(Some(<<"o", " ">>)), out(Some(<<"o", "x">>))>>),
          Case(TRUE, sT, <<"u">>,
               <<out(Some(<<"o", " ">>)), out(Some(<<"y">>))>>),
          Case(TRUE, sT, <<"u">>, <<out(Some(<<"o">>)), out(None)>>),
          Case(TRUE, sT, <<"u">>, <<out(None), out(Some(<<"y">>))>>),
          Case(TRUE, sT, <<"t">>, <<properties>>),
          Case(TRUE, ClientTests \o <<".", "T">>, <<"t">>, <<>>),
          Case(TRUE, <<"m","i","s","c",".","T">>, <<"t">>, <<>>),
          Case(FALSE, sT, <<>>,
               <<properties, out(Some(<<"o">>)), out(Some(<<"y">>))>>) }

InitShape ==
    /\ NameIdle
    /\ MainStart(<<RecordA, NotARecord>>)

NextShape ==
    \/ OpenFile
    \/ OpenFileFaults
    \/ ReadCase(ShapePool, MaxShapeCases)
    \/ EndInput
    \/ Classify
    \/ WriteModulePages
    \/ WriteJobPages
    \/ WriteHtmlIndex
    \/ WriteTestOutputs
    \/ WriteAssets

SpecShape == InitShape /\ [][NextShape]_vars

(***************************************************************************)
(* Claims about inputs of an unrecognized shape (checked under SpecShape)  *)
(***************************************************************************)

\* the file being read has a name that is no record file name
FileNameUnrecognized ==
    fi >= 1 /\ ~ReMatchJobFileName(filenames[fi]).matched

AcceptedTags == {"skipped", "failure", "error", "system-out"}

UnexpectedChild(case) ==
    \E i \in 1..Len(case.children) : case.children[i].tag \notin AcceptedTags

\* the texts of the system-out children of a case, in document order
SystemOuts(case) ==
    LET outs == SelectSeq(case.children, LAMBDA c : c.tag = "system-out")
    IN  [i \in 1..Len(outs) |-> outs[i].text]

\* text without its trailing whitespace: the longest prefix that does not
\* end with a whitespace character
Stripped(text) ==
    LET ends == {n \in 0..Len(text) : n = 0 \/ text[n] \notin Whitespace}
    IN  SubSeq(text, 1, CHOOSE n \in ends : \A m \in ends : m <= n)

IsPrefix(p, text) ==
    Len(p) <= Len(text) /\ \A i \in 1..Len(p) : text[i] = p[i]

\* the second system-out text extends the first (one without text is empty)
Extends(second, first) ==
    /\ second.some
    /\ IsPrefix(Stripped(IF first.some THEN first.val ELSE <<>>), second.val)

DuplicateNotExtending(case) ==
    /\ Len(SystemOuts(case)) >= 2
    /\ ~Extends(SystemOuts(case)[2], SystemOuts(case)[1])

AmbiguousJob == \E job \in JobsOfResults : AnyClient(job) = AnyServer(job)

NothingWritten ==
    /\ written = <<>>
    /\ pc \in {"parse", "classify", "aborted"}

\* C13 as stated: when a record file name does not match the pattern, a
\* case has a child of an unexpected tag or a second system-out that does
\* not extend the first, or a job is ambiguous or unclassifiable, the run
\* aborts before any file is written, the faulty file being the last one
\* or not.
C13_AbortBeforeWriting ==
    (\/ FileNameUnrecognized
     \/ \E i \in 1..Len(suite) :
            UnexpectedChild(suite[i]) \/ DuplicateNotExtending(suite[i])
     \/ AmbiguousJob) => written = <<>>

\* a case with a name attribute that has no accepted shape
UnrecognizedNamedCase ==
    \E i \in 1..Len(suite) :
        /\ suite[i].has_name
        /\ \/ FileNameUnrecognized
           \/ UnexpectedChild(suite[i])
           \/ DuplicateNotExtending(suite[i])

\* C13 (amended): when a case that has a name attribute lies in a file
\* whose name does not match the pattern, or has a child of an unexpected
\* tag or a second system-out that does not extend the first, the run
\* aborts at that case; when a job is ambiguous or unclassifiable the run
\* aborts in the classification; in both cases no file is ever written,
\* the faulty file being the last one or not.  A case without a name
\* attribute is not looked at, and a file without a case that has a name
\* attribute is accepted whatever its name.
C13_AbortBeforeWritingNamed ==
    /\ UnrecognizedNamedCase => pc = "aborted" /\ written = <<>>
    /\ AmbiguousJob => NothingWritten

C13_Witness ==
    /\ pc = "aborted"
    /\ fault = "AssertionError: job_file_name"
    /\ fi = Len(filenames)
    /\ Len(results) = 2
    /\ written = <<>>

RecognizedJobs ==
    {ReMatchJobFileName(filenames[k]).name :
        k \in {i \in 1..Len(filenames) :
                  ReMatchJobFileName(filenames[i]).matched}}

MaxTableCases == 2

XfailAttrib == [type |-> Some(PytestXfail), message |-> None, other |-> FALSE]

TypeAttrib(type) == [type |-> Some(type), message |-> None, other |-> FALSE]

\* the children of a case, one sequence per kind of outcome: passed,
\* skipped (with the type pytest.skip, pytest.xfail, another type and no
\* type), failed (without and with a type), passed with an output
Outcomes ==
    {<<>>,
     <<Element("skipped", SkipAttrib, None)>>,
     <<Element("skipped", XfailAttrib, None)>>,
     <<Element("skipped", TypeAttrib(<<"k">>), None)>>,
     <<Element("skipped", NoAttrib, None)>>,
     <<Element("failure", NoAttrib, Some(<<"e">>))>>,
     <<Element("error", TypeAttrib(<<"E">>), Some(<<"e">>))>>,
     <<Element("system-out", NoAttrib, Some(<<"o">>))>>}

TablePool ==
    {Case(TRUE, ServerTests \o <<".", "T">>, name, children) :
        name \in {<<"t">>, <<"u">>}, children \in Outcomes}

InitTable ==
    /\ NameIdle
    /\ MainStart(<<RecordA, RecordB>>)

NextTable ==
    \/ OpenFile
    \/ OpenFileFaults
    \/ ReadCase(TablePool, MaxTableCases)
    \/ EndInput
    \/ Classify
    \/ WriteModulePages
    \/ WriteJobPages
    \/ WriteHtmlIndex
    \/ WriteTestOutputs
    \/ WriteAssets

SpecTable == InitTable /\ [][NextTable]_vars

(***************************************************************************)
(* Claims about build_test_table (checked under SpecTable)                 *)
(***************************************************************************)

\* the pages that hold a table
TablePages == {f \in Range(written) : f.kind \in {"module", "job"}}

TestRows(page) == {k \in 1..Len(page.rows) : page.rows[k].kind = "test"}

\* the results the table of a page was built from
ResultsOfPage(page) ==
    IF page.kind = "module"
    THEN {r \in Range(results) : r.module_name = page.title}
    ELSE {r \in Range(results) : r.job \in Range(page.jobs)}

\* the heading of the class a row belongs to
ClassOfRow(page, k) ==
    page.rows[CHOOSE j \in 1..k :
                  /\ page.rows[j].kind = "class"
                  /\ \A i \in (j + 1)..k : page.rows[i].kind # "class"].text

\* the results of a job for the test of a row
ResultsOfCell(page, k, job) ==
    {r \in ResultsOfPage(page) :
        /\ r.job = job
        /\ r.test_name = page.rows[k].text
        /\ ClassOfRow(page, k)
               \in {r.class_name, r.module_name \o <<".">> \o r.class_name}}

CellsOfClasses(row, classes) ==
    Cardinality({i \in 1..Len(row.cells) : row.cells[i].class \in classes})

\* a row has one cell per job column, in the order of the columns: the
\* cell of a column is a deselected one exactly when the job of the column
\* has no result for the test
OneCellPerColumn(page, k) ==
    /\ Len(page.rows[k].cells) = Len(page.jobs)
    /\ \A i \in 1..Len(page.jobs) :
           page.rows[k].cells[i].class = "deselected"
               <=> ResultsOfCell(page, k, page.jobs[i]) = {}

\* C5: every test row of every table has exactly one cell per job column,
\* in the order of the columns, and its numbers of deselected, skipped
\* (those of the expected failures, which are skipped results, included),
\* success and failure cells sum to the number of columns.
C5_CellsSumToColumns ==
    \A page \in TablePages : \A k \in TestRows(page) :
        /\ OneCellPerColumn(page, k)
        /\ CellsOfClasses(page.rows[k], {"deselected"})
               + CellsOfClasses(page.rows[k], {"skipped", "expected-failure"})
               + CellsOfClasses(page.rows[k], {"success"})
               + CellsOfClasses(page.rows[k], {"failure"})
               = Len(page.jobs)

C5_Witness ==
    \E page \in TablePages : \E k \in TestRows(page) :
        /\ Len(page.jobs) = 2
        /\ CellsOfClasses(page.rows[k], {"expected-failure"}) = 1
        /\ CellsOfClasses(page.rows[k], {"deselected"}) = 1

\* the outcome class of a cell by the precedence of the claim
ClassByPrecedence(rs) ==
    IF rs = {} THEN "deselected"
    ELSE LET r == CHOOSE x \in rs : TRUE IN
         IF r.skipped
         THEN IF r.type.some /\ r.type.val = PytestXfail
              THEN "expected-failure"
              ELSE "skipped"
         ELSE IF r.success THEN "success"
         ELSE "failure"

\* C6: every cell of a test row has one outcome class: "deselected" when
\* the job of its column has no result for the test of the row; otherwise
\* "skipped" when the result is skipped ("expected-failure" when the type
\* of the skipped result is pytest.xfail); otherwise "success" when the
\* result is successful; otherwise "failure".
C6_ClassPrecedence ==
    \A page \in TablePages : \A k \in TestRows(page) :
        \A i \in 1..Len(page.rows[k].cells) :
            LET rs == ResultsOfCell(page, k, page.jobs[i]) IN
            /\ Cardinality(rs) <= 1
            /\ page.rows[k].cells[i].class = ClassByPrecedence(rs)

\* a skipped result is a successful one too, and its cell is "skipped"
C6_Witness ==
    \E page \in TablePages : \E k \in TestRows(page) :
        /\ Len(page.jobs) = 2
        /\ page.rows[k].cells[1].class = "skipped"
        /\ \E r \in ResultsOfCell(page, k, page.jobs[1]) :
               r.skipped /\ r.success
        /\ page.rows[k].cells[2].class = "failure"

HasType(r) == r.type.some /\ r.type.val # <<>>

\* the marker text of the claim; typeless is the marker of a skipped
\* result that has no type
MarkerText(rs, typeless) ==
    IF rs = {} THEN <<"d">>
    ELSE LET r == CHOOSE x \in rs : TRUE IN
         IF r.skipped
         THEN IF ~HasType(r) THEN typeless
              ELSE IF r.type.val = PytestSkip THEN <<"s">>
              ELSE IF r.type.val = PytestXfail THEN <<"X">>
              ELSE r.type.val
         ELSE IF HasType(r) THEN r.type.val
         ELSE IF r.success THEN <<".">>
         ELSE <<"f">>

\* C7 as stated: the marker text of a cell is "d" for a deselected cell,
\* "s" for a skipped result, one without a type included, "X" for a
\* skipped result of type pytest.xfail, "." for a success and "f" for a
\* failure; another non-empty type is the marker text instead.
C7_SkippedWithoutTypeIsS ==
    \A page \in TablePages : \A k \in TestRows(page) :
        \A i \in 1..Len(page.rows[k].cells) :
            page.rows[k].cells[i].text
                = MarkerText(ResultsOfCell(page, k, page.jobs[i]), <<"s">>)

\* C7 (amended): the marker text of a cell is "d" for a deselected cell,
\* "s" for a skipped result of type pytest.skip, "X" for a skipped result
\* of type pytest.xfail and "?" for a skipped result without a type, "."
\* for a success and "f" for a failure; another non-empty type is the
\* marker text instead.
C7_SkippedWithoutTypeIsQuestion ==
    \A page \in TablePages : \A k \in TestRows(page) :
        \A i \in 1..Len(page.rows[k].cells) :
            page.rows[k].cells[i].text
                = MarkerText(ResultsOfCell(page, k, page.jobs[i]), <<"?">>)

C7_Witness ==
    \E page \in TablePages : \E k \in TestRows(page) :
        \E i \in 1..Len(page.rows[k].cells) :
            /\ page.rows[k].cells[i].text = <<"?">>
            /\ \E r \in ResultsOfCell(page, k, page.jobs[i]) :
                   r.skipped /\ ~r.type.some
            /\ \E j \in 1..Len(page.rows[k].cells) :
                   page.rows[k].cells[j].text = <<"E">>

(***************************************************************************)
(* The pipeline on the records of a job, of the same job with services    *)
(* and of a job whose name begins with the name of the first              *)
(***************************************************************************)

MaxServiceCases == 3

RecordAAtheme == <<"p","y","t","e","s","t","-","r","e","s","u","l","t","s","_","a","-","a","t","h","e","m","e","_","(","s","t","a","b","l","e",")","/","p","y","t","e","s","t",".","x","m","l">>
RecordAb == <<"p","y","t","e","s","t","-","r","e","s","u","l","t","s","_","a","b","_","(","s","t","a","b","l","e",")","/","p","y","t","e","s","t",".","x","m","l">>

\* two tests of a server-suite module and one of a client-suite module
ServicePool ==
    {Case(TRUE, ServerTests \o <<".", "T">>, <<"t">>, <<>>),
     Case(TRUE, ServerTests \o <<".", "T">>, <<"u">>, <<>>),
     Case(TRUE, ClientTests \o <<".", "T">>, <<"t">>, <<>>)}

InitServices ==
    /\ NameIdle
    /\ MainStart(<<RecordA, RecordAAtheme, RecordAb>>)

NextServices ==
    \/ OpenFile
    \/ OpenFileFaults
    \/ ReadCase(ServicePool, MaxServiceCases)
    \/ EndInput
    \/ Classify
    \/ WriteModulePages
    \/ WriteJobPages
    \/ WriteHtmlIndex
    \/ WriteTestOutputs
    \/ WriteAssets

SpecServices == InitServices /\ [][NextServices]_vars

(***************************************************************************)
(* Claims about the pages of write_html_pages (checked under SpecServices) *)
(***************************************************************************)

\* write_html_pages has returned its list of pages
PagesReturned == pc \in {"index", "outputs", "assets", "done"}

ModulesOfResults == {results[i].module_name : i \in 1..Len(results)}

\* the number of files of a kind and title in the output directory, and of
\* entries of a type and title in the list of pages
FilesWritten(kind, title) ==
    Cardinality({i \in 1..Len(written) :
                    written[i].kind = kind /\ written[i].title = title})

PagesListed(page_type, title) ==
    Cardinality({i \in 1..Len(pages) :
                    pages[i][1] = page_type /\ pages[i][2] = title})

OneModulePageEach ==
    \A m \in ModulesOfResults :
        FilesWritten("module", m) = 1 /\ PagesListed(ModuleType, m) = 1

\* C18 as stated: write_html_pages writes one module page per module of
\* the results and one job page per job of the results, the jobs with
\* services included, each once in the list of pages it returns.
C18_OnePagePerModuleAndJob ==
    PagesReturned =>
        /\ OneModulePageEach
        /\ \A job \in JobsOfResults :
               FilesWritten("job", job) = 1 /\ PagesListed(JobType, job) = 1

\* C18 (amended): write_html_pages writes one module page per module of
\* the results and one job page per job of the results that is classified
\* server or client, each once in the list of pages it returns; a job
\* classified server-with-services has no job page.
C18_OnePagePerModuleAndPlainJob ==
    PagesReturned =>
        /\ OneModulePageEach
        /\ Len(pages) = Cardinality(ModulesOfResults)
               + Cardinality({job \in JobsOfResults :
                                 CategoryOf(job) \in {"server", "client"}})
        /\ \A job \in JobsOfResults :
               IF CategoryOf(job) \in {"server", "client"}
               THEN FilesWritten("job", job) = 1
                        /\ PagesListed(JobType, job) = 1
               ELSE FilesWritten("job", job) = 0
                        /\ PagesListed(JobType, job) = 0

C18_Witness ==
    /\ pc = "done"
    /\ Cardinality(JobsOfResults) = 3
    /\ \E job \in JobsOfResults : CategoryOf(job) = "server-with-services"
    /\ \E job \in JobsOfResults : CategoryOf(job) = "client"
    /\ Len(pages) = 4

JobPagesWritten == {f \in Range(written) : f.kind = "job"}

\* the jobs of the results whose name is job or begins with job and "-"
VariantsOf(job) ==
    {j \in JobsOfResults :
        \/ j = job
        \/ /\ Len(j) > Len(job)
           /\ \A i \in 1..Len(job) : j[i] = job[i]
           /\ j[Len(job) + 1] = "-"}

IsSorted(texts) ==
    \A i, j \in 1..Len(texts) : i < j => StrLess(texts[i], texts[j])

\* C19: the columns of the job page of a job are the jobs of the results
\* whose name is that of the job or begins with it and "-", sorted,
\* whatever their category, and its table is built from the results of
\* these jobs: every one of them is in the cell of its test and its job,
\* and every cell of a column without a result for the test of the row is
\* a deselected one.
C19_JobPageColumns ==
    \A page \in JobPagesWritten :
        /\ Range(page.jobs) = VariantsOf(page.title)
        /\ IsSorted(page.jobs)
        /\ \A r \in Range(results) :
               r.job \in VariantsOf(page.title) =>
                   \E k \in TestRows(page) :
                       /\ page.rows[k].text = r.test_name
                       /\ r \in ResultsOfCell(page, k, r.job)
        /\ \A k \in TestRows(page) :
               /\ OneCellPerColumn(page, k)
               /\ \E r \in Range(results) :
                      /\ r.job \in VariantsOf(page.title)
                      /\ r.test_name = page.rows[k].text

\* the page of a client job has the column of a job with services, and not
\* that of a job whose name merely begins with its name
C19_Witness ==
    \E page \in JobPagesWritten :
        /\ page.title = <<"a">>
        /\ page.jobs = <<<<"a">>, <<"a","-","a","t","h","e","m","e">>>>
        /\ CategoryOf(<<"a">>) = "client"
        /\ <<"a", "b">> \in JobsOfResults

(***************************************************************************)
(* The pipeline on the records of one job whose tests have long names, or *)
(* lie in a module and in a module named after a class of that module     *)
(***************************************************************************)

MaxAnchorCases == 3

\* tests of the class T of a module: one with a short name, two whose row
\* anchor "T." and name has 49 and 50 characters, and one named U; and a
\* test of the class U of the module named after the class T
AnchorPool ==
    {Case(TRUE, ServerTests \o <<".", "T">>, <<"t">>, <<>>),
     Case(TRUE, ServerTests \o <<".", "T">>, Rep("x", AnchorLimit - 3), <<>>),
     Case(TRUE, ServerTests \o <<".", "T">>, Rep("x", AnchorLimit - 2), <<>>),
     Case(TRUE, ServerTests \o <<".", "T">>, <<"U">>, <<>>),
     Case(TRUE, ServerTests \o <<".", "T", ".", "U">>, <<"t">>, <<>>)}

InitAnchor ==
    /\ NameIdle
    /\ MainStart(<<RecordA>>)

NextAnchor ==
    \/ OpenFile
    \/ OpenFileFaults
    \/ ReadCase(AnchorPool, MaxAnchorCases)
    \/ EndInput
    \/ Classify
    \/ WriteModulePages
    \/ WriteJobPages
    \/ WriteHtmlIndex
    \/ WriteTestOutputs
    \/ WriteAssets

SpecAnchor == InitAnchor /\ [][NextAnchor]_vars

(***************************************************************************)
(* Claims about the anchors of a table (checked under SpecAnchor)          *)
(***************************************************************************)

\* the rows of a table that have an anchor id: the headings of the classes
\* and the rows of the tests
AnchoredRows(page) ==
    {k \in 1..Len(page.rows) : page.rows[k].kind \in {"class", "test"}}

AnchorsDistinct(page) ==
    \A i, j \in AnchoredRows(page) :
        page.rows[i].id = page.rows[j].id => i = j

\* C20: within a page, the anchor ids of the table (the anchor of every
\* class heading and of every test row, hashed or not) are pairwise
\* distinct.
C20_AnchorsDistinct ==
    \A page \in TablePages : AnchorsDistinct(page)

\* the same for the pages whose results lie in one module, where an anchor
\* of 50 characters is hashed and one of 49 is not
C20_AnchorsDistinctInOneModule ==
    \A page \in TablePages :
        Cardinality({r.module_name : r \in ResultsOfPage(page)}) = 1 =>
            /\ AnchorsDistinct(page)
            /\ \A k \in TestRows(page) :
                   LET anchor == ClassOfRow(page, k) \o <<".">>
                                     \o page.rows[k].text
                   IN  page.rows[k].id =
                           IF Len(anchor) >= 50 THEN md5sum(anchor)
                           ELSE anchor

(***************************************************************************)
(* The pipeline on the records of a job and of the same job with services, *)
(* with a test that passes, is skipped or has an output                    *)
(***************************************************************************)

MaxReportCases == 4

\* a test of a server-suite module that passes, is skipped, or passes with
\* a captured output, and a skipped test with a captured output
ReportPool ==
    LET sT == ServerTests \o <<".", "T">>
        skipped == Element("skipped", SkipAttrib, None)
        out == Element("system-out", NoAttrib, Some(<<"o">>))
    IN  { Case(TRUE, sT, <<"t">>, <<>>),
          Case(TRUE, sT, <<"t">>, <<skipped>>),
          Case(TRUE, sT, <<"t">>, <<out>>),
          Case(TRUE, sT, <<"u">>, <<skipped, out>>) }

InitReport ==
    /\ NameIdle
    /\ MainStart(<<RecordA, RecordAAtheme>>)

NextReport ==
    \/ OpenFile
    \/ OpenFileFaults
    \/ ReadCase(ReportPool, MaxReportCases)
    \/ EndInput
    \/ Classify
    \/ WriteModulePages
    \/ WriteJobPages
    \/ WriteHtmlIndex
    \/ WriteTestOutputs
    \/ WriteAssets

SpecReport == InitReport /\ [][NextReport]_vars

(***************************************************************************)
(* Claims about a test reported twice by a job (checked under SpecReport)  *)
(***************************************************************************)

\* two results of one job for one test of one class of one module
SameTest(r, s) ==
    /\ r.job = s.job
    /\ r.module_name = s.module_name
    /\ r.class_name = s.class_name
    /\ r.test_name = s.test_name

\* no cell of a written page stands for two results
NoCellOfTwoResults ==
    \A page \in TablePages : \A k \in TestRows(page) :
        \A i \in 1..Len(page.jobs) :
            Cardinality(ResultsOfCell(page, k, page.jobs[i])) <= 1

HasServicesSuffix(job) == \E suffix \in ServicesSuffixes : endswith(job, suffix)

\* the job of the result r is a column of a page whose table has the row of
\* r: its own job page, the job page of the job whose name it extends, or
\* the page of its module
IsShown(r) ==
    \/ ~HasServicesSuffix(r.job)
    \/ \E b \in JobsOfResults :
           ~HasServicesSuffix(b) /\ startswith(r.job, b \o <<"-">>)
    \/ \E x \in Range(results) :
           /\ x.module_name = r.module_name
           /\ ~x.skipped
           /\ HasServicesSuffix(x.job)

\* C21: when a job reports two outcomes for the same (module, class, test
\* name), the run aborts: it never completes with such a duplicate among
\* the results, and no cell of a written page is rendered from one of two
\* competing results.
C21_DuplicateAborts ==
    /\ TestReportedTwice => pc \notin {"index", "outputs", "assets", "done"}
    /\ NoCellOfTwoResults

\* what the unpacking of line 240 ensures: the run aborts when the job of
\* the duplicate is a column of a page that has the row of the test, and
\* no cell is rendered from one of two results
C21_ShownDuplicateAborts ==
    /\ NoCellOfTwoResults
    /\ \A i, j \in 1..Len(results) :
           (i < j /\ SameTest(results[i], results[j]) /\ IsShown(results[i]))
               => pc \notin {"index", "outputs", "assets", "done"}

\* a run that completes with a test reported twice
C21_DuplicateCompletes ==
    /\ pc = "done"
    /\ TestReportedTwice
    /\ \E i \in 1..Len(results) : ~IsShown(results[i])

(***************************************************************************)
(* Claims about the results left out of a module page (checked under       *)
(* SpecReport)                                                             *)
(***************************************************************************)

\* the results of the module of a module page
ResultsOfModule(page) == {r \in Range(results) : r.module_name = page.title}

\* the result r is rendered as a cell of the page: the cell of the column
\* of its job in the row of its test
HasCell(page, r) ==
    \E k \in TestRows(page) : \E i \in 1..Len(page.jobs) :
        /\ page.jobs[i] = r.job
        /\ page.rows[k].text = r.test_name
        /\ ClassOfRow(page, k) = r.class_name
        /\ page.rows[k].cells[i].class = CellClass(r)

\* the categories of the jobs that have a non-skipped result in the module
CategoriesShown(page) ==
    {CategoryOf(r.job) : r \in {x \in ResultsOfModule(page) : ~x.skipped}}

\* C26: every CaseResult of a module is rendered as a cell on the page of
\* the module: none is left out because its job is no column of the page.
C26_EveryResultHasACell ==
    \A page \in ModulePagesWritten :
        \A r \in ResultsOfModule(page) : HasCell(page, r)

\* C26 (amended): the columns of the page of a module are the jobs whose
\* category is that of a job with a non-skipped result in the module. A
\* result of the module is rendered as a cell of the page when its job is
\* one of these columns; otherwise it is a skipped result and is left out
\* of the page.
C26_ResultsOfShownCategoriesHaveACell ==
    \A page \in ModulePagesWritten :
        /\ Range(page.jobs)
               = {job \in JobsOfResults :
                     CategoryOf(job) \in CategoriesShown(page)}
        /\ \A r \in ResultsOfModule(page) :
               IF CategoryOf(r.job) \in CategoriesShown(page)
               THEN HasCell(page, r)
               ELSE r.skipped /\ ~HasCell(page, r)

C26_Witness ==
    /\ pc = "done"
    /\ \E page \in ModulePagesWritten :
           /\ \E r \in ResultsOfModule(page) : ~r.skipped /\ HasCell(page, r)
           /\ \E r \in ResultsOfModule(page) :
                  /\ r.skipped
                  /\ CategoryOf(r.job) = "server-with-services"
                  /\ ~HasCell(page, r)

(***************************************************************************)
(* The pipeline on the records of two jobs, read in decreasing order of    *)
(* the jobs, with tests of two modules and captured outputs                *)
(***************************************************************************)

MaxWriteCases == 3

\* a passing test of each of two modules of the server suite, one with a
\* captured output, and a skipped one with a captured output
WritePool ==
    LET sT == ServerTests \o <<".", "T">>
        xT == ServerTestsX \o <<".", "T">>
        skipped == Element("skipped", SkipAttrib, None)
        out == Element("system-out", NoAttrib, Some(<<"o">>))
    IN  { Case(TRUE, sT, <<"t">>, <<>>),
          Case(TRUE, sT, <<"t">>, <<out>>),
          Case(TRUE, xT, <<"t">>, <<>>),
          Case(TRUE, xT, <<"u">>, <<skipped, out>>) }

InitWrite ==
    /\ NameIdle
    /\ MainStart(<<RecordB, RecordA>>)

NextWrite ==
    \/ OpenFile
    \/ OpenFileFaults
    \/ ReadCase(WritePool, MaxWriteCases)
    \/ EndInput
    \/ Classify
    \/ WriteModulePages
    \/ WriteJobPages
    \/ WriteHtmlIndex
    \/ WriteTestOutputs
    \/ WriteAssets

SpecWrite == InitWrite /\ [][NextWrite]_vars

(***************************************************************************)
(* Claims about the order of the writes (checked under SpecWrite)          *)
(***************************************************************************)

\* the place of a kind of file in the order of the claim
RankOfKind(kind) ==
    CASE kind = "module" -> 1
      [] kind = "job" -> 2
      [] kind = "index" -> 3
      [] kind = "output" -> 4
      [] kind = "css" -> 5

\* the files are written kind after kind, the module pages in increasing
\* order of the module names
WrittenInOrder ==
    \A i, j \in 1..Len(written) :
        i < j =>
            /\ RankOfKind(written[i].kind) <= RankOfKind(written[j].kind)
            /\ (written[i].kind = "module" /\ written[j].kind = "module")
                   => StrLess(written[i].title, written[j].title)

\* every link of the index leads to a file written before the index
IndexLinksWritten ==
    \A i \in 1..Len(written) :
        written[i].kind = "index" =>
            \A l \in 1..Len(written[i].links) :
                \E j \in 1..(i - 1) :
                    /\ written[j].kind \in {"module", "job"}
                    /\ written[i].links[l][2] = <<".", "/">> \o written[j].name

\* the kinds of files that a stage of main has behind it
KindsComplete(kinds) ==
    /\ "module" \in kinds =>
           \A r \in Range(results) :
               \E f \in Range(written) :
                   f.kind = "module" /\ f.title = r.module_name
    /\ "job" \in kinds =>
           \A job \in JobsOfResults :
               CategoryOf(job) \in {"server", "client"} =>
                   \E f \in Range(written) : f.kind = "job" /\ f.title = job
    /\ "index" \in kinds =>
           Cardinality({i \in 1..Len(written) : written[i].kind = "index"}) = 1
    /\ "output" \in kinds =>
           \A r \in Range(results) :
               r.system_out.some =>
                   \E f \in Range(written) :
                       f.kind = "output" /\ f.name = output_filename(r)
    /\ "css" \in kinds =>
           written # <<>> /\ written[Len(written)].kind = "css"

\* C23: in a run without fault the record files are all parsed before
\* anything is written; then the module pages are written in sorted
\* order of the modules, then the job pages, then index.xhtml, then the
\* captured outputs, then style.css. Every stage starts when the files of
\* the stages before it are all written, index.xhtml links only to pages
\* written before it, and main returns 0 only after the stylesheet has
\* been written.
C23_OrderOfWrites ==
    /\ WrittenInOrder
    /\ IndexLinksWritten
    /\ pc \in {"parse", "classify", "module_pages"} => written = <<>>
    /\ pc = "job_pages" => KindsComplete({"module"})
    /\ pc = "index" => KindsComplete({"module", "job"})
    /\ pc = "outputs" => KindsComplete({"module", "job", "index"})
    /\ pc = "assets" => KindsComplete({"module", "job", "index", "output"})
    /\ pc = "done" =>
           KindsComplete({"module", "job", "index", "output", "css"})

C23_Witness ==
    /\ pc = "done"
    /\ Len(results) = 3
    /\ results[1].module_name = ServerTestsX
    /\ results[2].module_name = ServerTests
    /\ results[1].job # results[3].job
    /\ \E i \in 1..Len(written) : written[i].kind = "output"
    /\ \E i \in 1..Len(written) :
           written[i].kind = "index" /\ Len(written[i].links) = 4

(***************************************************************************)
(* Claims about the captured outputs and the links to them (checked under  *)
(* SpecWrite)                                                              *)
(***************************************************************************)

\* the captured output of the result r has been written to its file
OutputWritten(r) ==
    \E f \in Range(written) :
        f.kind = "output" /\ f.name = output_filename(r)

\* the cell of a column of a row is a link exactly when the result it is
\* rendered from has a captured output, and then a link to the file of
\* this output, which has been written
LinkAsSpecified(page, k, i) ==
    LET cell == page.rows[k].cells[i]
        linked == {r \in ResultsOfCell(page, k, page.jobs[i]) :
                      Truthy(r.system_out)}
    IN  /\ cell.href.some <=> linked # {}
        /\ cell.href.some =>
               \E r \in linked :
                   /\ cell.href.val = <<".", "/">> \o output_filename(r)
                   /\ OutputWritten(r)

\* C24: at the end of a run without fault, the captured output of every
\* result that has one (system_out is not None) has been written to the
\* file named by its output_filename, and every link of a cell of a table
\* leads to the output file of the result of the cell, which has been
\* written.
C24_LinksLeadToWrittenOutputs ==
    pc = "done" =>
        /\ \A r \in Range(results) : r.system_out.some => OutputWritten(r)
        /\ \A page \in TablePages : \A k \in TestRows(page) :
               \A i \in 1..Len(page.jobs) : LinkAsSpecified(page, k, i)

C24_Witness ==
    /\ pc = "done"
    /\ Cardinality({f \in Range(written) : f.kind = "output"}) = 2
    /\ \E page \in TablePages : \E k \in TestRows(page) :
           /\ page.kind = "module"
           /\ \E i \in 1..Len(page.jobs) :
                  /\ page.rows[k].cells[i].class = "skipped"
                  /\ page.rows[k].cells[i].href.some
           /\ \E i \in 1..Len(page.jobs) :
                  /\ page.rows[k].cells[i].class = "deselected"
                  /\ ~page.rows[k].cells[i].href.some

(***************************************************************************)
(* The pipeline on the records of the jobs a and a_b, with captured        *)
(* outputs of tests whose names hold the separators of the output file     *)
(* name                                                                    *)
(***************************************************************************)

MaxOverwriteCases == 3

RecordA_b == <<"p","y","t","e","s","t","-","r","e","s","u","l","t","s","_","a","_","b","_","(","s","t","a","b","l","e",")","/","p","y","t","e","s","t",".","x","m","l">>

\* tests with a captured output: the test U.t of the class T of a module
\* and the test t of the class U of the module named after that class; the
\* test t of the class T of that module and of a module whose name begins
\* with b_
OverwritePool ==
    LET out(text) == Element("system-out", NoAttrib, Some(text))
    IN  { Case(TRUE, ServerTests \o <<".", "T">>, <<"U", ".", "t">>,
               <<out(<<"o">>)>>),
          Case(TRUE, ServerTests \o <<".", "T", ".", "U">>, <<"t">>,
               <<out(<<"p">>)>>),
          Case(TRUE, ServerTests \o <<".", "T">>, <<"t">>, <<out(<<"q">>)>>),
          Case(TRUE, <<"b", "_">> \o ServerTests \o <<".", "T">>, <<"t">>,
               <<out(<<"r">>)>>) }

InitOverwrite ==
    /\ NameIdle
    /\ MainStart(<<RecordA, RecordA_b>>)

NextOverwrite ==
    \/ OpenFile
    \/ OpenFileFaults
    \/ ReadCase(OverwritePool, MaxOverwriteCases)
    \/ EndInput
    \/ Classify
    \/ WriteModulePages
    \/ WriteJobPages
    \/ WriteHtmlIndex
    \/ WriteTestOutputs
    \/ WriteAssets

SpecOverwrite == InitOverwrite /\ [][NextOverwrite]_vars

(***************************************************************************)
(* Claims about the names of the output files (checked under               *)
(* SpecOverwrite)                                                          *)
(***************************************************************************)

\* the output files written so far, by their place in the log of writes
OutputsWritten == {i \in 1..Len(written) : written[i].kind = "output"}

\* output_filename returns for both results, and the same name
SameOutputFilename(r, s) ==
    /\ ~CannotShorten(r.test_name)
    /\ ~CannotShorten(s.test_name)
    /\ output_filename(r) = output_filename(s)

\* C25: two CaseResults that differ in job, module, class or test name
\* get different output file names, and write_test_outputs writes no file
\* twice: it never overwrites the captured output of a case with that of
\* another.
C25_DistinctOutputFilenames ==
    /\ \A r, s \in Range(results) :
           SameOutputFilename(r, s) => SameTest(r, s)
    /\ \A i, j \in OutputsWritten :
           written[i].name = written[j].name => i = j

\* what holds of the names: they are distinct for results of jobs without
\* "_" in their name and tests without "." in theirs, which are the two
\* separators that output_filename joins the names with
C25_DistinctWithoutSeparators ==
    \A r, s \in Range(results) :
        /\ SameOutputFilename(r, s)
        /\ "_" \notin Range(r.job) \cup Range(s.job)
        /\ "." \notin Range(r.test_name) \cup Range(s.test_name)
        => SameTest(r, s)

\* a run without fault in which the output of a case is overwritten with
\* that of another
C25_Overwritten ==
    /\ pc = "done"
    /\ \E i, j \in OutputsWritten :
           /\ i < j
           /\ written[i].name = written[j].name
           /\ written[i].text # written[j].text
    /\ Cardinality(JobsOfResults) = 1

(***************************************************************************)
(* The parsing of bounded record files                                     *)
(***************************************************************************)

\* the case elements read in a run of the parser
MaxParseCases == 3

ParsePool ==
    LET mT == <<"m", ".", "T">>
        pmU == <<"p", ".", "m", ".", "U">>
        t1 == <<"t", "1">>
        t2 == <<"t", "2">>
        out(text) == Element("system-out", NoAttrib, Some(text))
    IN  { Case(TRUE, mT, t1, <<>>),
          Case(TRUE, mT, t2, <<>>),
          Case(TRUE, pmU, t2, <<>>),
          Case(TRUE, mT, t1, <<Element("skipped", SkipAttrib, None)>>),
          Case(TRUE, mT, t1,
               <<Element("failure", NoAttrib, Some(<<"E">>)), out(<<"o">>)>>),
          Case(TRUE, mT, t2, <<out(<<"o", " ">>), out(<<"o", "x">>)>>),
          Case(TRUE, mT, t2, <<out(<<"o", " ">>), out(<<"y">>)>>),
          Case(TRUE, mT, t1, <<Element("properties", NoAttrib, None)>>),
          Case(TRUE, <<"T">>, t1, <<>>),
          Case(TRUE, mT, t1,
               <<Element("skipped", [SkipAttrib EXCEPT !.other = TRUE],
                         None)>>),
          Case(FALSE, mT, <<>>, <<>>),
          Case(FALSE, <<"T">>, <<>>,
               <<Element("properties", NoAttrib, None)>>) }

InitParse ==
    /\ NameIdle
    /\ MainStart(<<RecordA, NotARecord>>)

NextParse ==
    \/ OpenFile
    \/ OpenFileFaults
    \/ ReadCase(ParsePool, MaxParseCases)
    \/ EndInput

SpecParse == InitParse /\ [][NextParse]_vars

(***************************************************************************)
(* Claims about iter_job_results (checked under SpecParse)                 *)
(***************************************************************************)

\* the case elements of a suite that have a name attribute, in order
RECURSIVE NamedCases(_)
NamedCases(cases) ==
    IF cases = <<>> THEN <<>>
    ELSE IF Head(cases).has_name
    THEN <<Head(cases)>> \o NamedCases(Tail(cases))
    ELSE NamedCases(Tail(cases))

\* r is the CaseResult of case: its test name and its dotted class name
IsResultOf(r, case) ==
    /\ r.test_name = case.name
    /\ r.module_name \o <<".">> \o r.class_name = case.classname

\* C1: while iter_job_results runs on a record file without fault, and
\* when it ends, it has yielded exactly one CaseResult per case element
\* read that has a name attribute, in document order, and none for a case
\* element without a name attribute.
C1_OneResultPerNamedCase ==
    (pc \in {"parse", "classify"} /\ fi >= 1) =>
        LET named == NamedCases(suite) IN
        /\ Len(yielded) = Len(named)
        /\ \A k \in 1..Len(named) : IsResultOf(yielded[k], named[k])

C1_Witness ==
    /\ pc = "parse"
    /\ fi = 1
    /\ Len(suite) = 3
    /\ Len(yielded) = 1
    /\ ~suite[1].has_name /\ suite[2].has_name /\ ~suite[3].has_name

(***************************************************************************)
(* Claims about the system-out children of a case (checked under           *)
(* SpecShape)                                                              *)
(***************************************************************************)

DuplicateFault == "AssertionError: Duplicate system-out tag"

\* what the claim says of the k-th case with a name of the file being
\* read, when it has two system-out children; textless_fault is the fault
\* that a second child without text is rejected with
SecondSystemOutAsSpecified(k, textless_fault) ==
    LET outs == SystemOuts(NamedCases(suite)[k]) IN
    Len(outs) >= 2 =>
        IF Extends(outs[2], outs[1])
        THEN /\ k <= Len(yielded) => yielded[k].system_out = outs[2]
             /\ k > Len(yielded) => pc = "aborted" /\ fault # DuplicateFault
        ELSE /\ pc = "aborted"
             /\ k > Len(yielded)
             /\ fault = IF outs[2].some THEN DuplicateFault
                        ELSE textless_fault

\* C17 as stated: the second system-out child of a case is accepted if and
\* only if its text starts with the text of the first without its trailing
\* whitespace; when accepted the system_out of the CaseResult is the text
\* of the second, and otherwise the run aborts with the duplicate
\* system-out fault.
C17_SecondSystemOut ==
    \A k \in 1..Len(NamedCases(suite)) :
        SecondSystemOutAsSpecified(k, DuplicateFault)

\* C17 (amended): the same, but a second system-out child without text
\* that follows one with a text makes the run abort with an attribute
\* error (None has no startswith) and not with the duplicate system-out
\* fault.
C17_SecondSystemOutOrNoText ==
    \A k \in 1..Len(NamedCases(suite)) :
        SecondSystemOutAsSpecified(k, "AttributeError: child.text is None")

\* the second text extends the first only once the trailing space of the
\* first is stripped
C17_Witness ==
    /\ pc = "parse"
    /\ Len(yielded) = 1
    /\ Len(suite) = 1
    /\ SystemOuts(suite[1]) = <<Some(<<"o", " ">>), Some(<<"o", "x">>)>>
    /\ yielded[1].system_out = Some(<<"o", "x">>)

(***************************************************************************)
(* The parsing of cases with several outcome children                      *)
(***************************************************************************)

MaxOutcomeCases == 3

FailureAttrib == [type |-> Some(<<"E">>), message |-> Some(<<"m">>), other |-> FALSE]

\* a case without child, with one outcome child, and with two or three in
\* either order, with an output between them or without, and a case
\* without a name that has two
OutcomePool ==
    LET mT == <<"m", ".", "T">>
        skipped == Element("skipped", SkipAttrib, None)
        failure == Element("failure", FailureAttrib, Some(<<"d">>))
        error == Element("error", NoAttrib, Some(<<"e">>))
        out == Element("system-out", NoAttrib, Some(<<"o">>))
    IN  { Case(TRUE, mT, <<"t">>, <<>>),
          Case(TRUE, mT, <<"t">>, <<skipped>>),
          Case(TRUE, mT, <<"t">>, <<failure>>),
          Case(TRUE, mT, <<"t">>, <<failure, skipped>>),
          Case(TRUE, mT, <<"t">>, <<skipped, out, failure>>),
          Case(TRUE, mT, <<"t">>, <<failure, error>>),
          Case(TRUE, mT, <<"t">>, <<error, failure, skipped, out>>),
          Case(FALSE, mT, <<>>, <<skipped, failure>>) }

InitOutcome ==
    /\ NameIdle
    /\ MainStart(<<RecordA, NotARecord>>)

NextOutcome ==
    \/ OpenFile
    \/ OpenFileFaults
    \/ ReadCase(OutcomePool, MaxOutcomeCases)
    \/ EndInput

SpecOutcome == InitOutcome /\ [][NextOutcome]_vars

(***************************************************************************)
(* Claims about the outcome children of a case (checked under SpecOutcome) *)
(***************************************************************************)

\* the skipped, failure and error children of a case, in document order
OutcomeChildren(case) ==
    SelectSeq(case.children,
              LAMBDA c : c.tag \in {"skipped", "failure", "error"})

\* the outcome fields of a CaseResult are those that the child gives, none
\* of them being left from another child
OutcomeTakenFrom(r, child) ==
    /\ r.skipped = (child.tag = "skipped")
    /\ r.success = (child.tag = "skipped")
    /\ r.details = IF child.tag = "skipped" THEN None ELSE child.text
    /\ r.type = child.attrib.type
    /\ r.message = child.attrib.message

\* the outcome fields of a CaseResult of a case without outcome child
NoOutcome(r) ==
    /\ r.success
    /\ ~r.skipped
    /\ r.details = None
    /\ r.type = None
    /\ r.message = None

\* C22: a case element with more than one outcome child (skipped, failure,
\* error) is not accepted by the parser: every CaseResult yielded comes
\* from a case with at most one such child, from which it takes its
\* success, skipped, details and extra fields.
C22_AtMostOneOutcomeChild ==
    fi >= 1 =>
        \A k \in 1..Len(yielded) :
            LET children == OutcomeChildren(NamedCases(suite)[k]) IN
            /\ Len(children) <= 1
            /\ children = <<>> => NoOutcome(yielded[k])
            /\ children # <<>> => OutcomeTakenFrom(yielded[k], children[1])

\* C22 (amended): a case element with several outcome children is
\* accepted, and every CaseResult yielded takes its success, skipped,
\* details and extra fields from one child: the last outcome child of its
\* case in document order. Without outcome child it is a success without
\* details, type and message.
C22_LastOutcomeChild ==
    fi >= 1 =>
        \A k \in 1..Len(yielded) :
            LET children == OutcomeChildren(NamedCases(suite)[k]) IN
            /\ children = <<>> => NoOutcome(yielded[k])
            /\ children # <<>> =>
                   OutcomeTakenFrom(yielded[k], children[Len(children)])

C22_Witness ==
    /\ fi = 1
    /\ Len(yielded) = 2
    /\ LET first == OutcomeChildren(NamedCases(suite)[1])
           second == OutcomeChildren(NamedCases(suite)[2])
       IN  /\ Len(first) = 2
           /\ first[1].tag = "failure" /\ first[2].tag = "skipped"
           /\ yielded[1].skipped /\ yielded[1].details = None
           /\ Len(second) = 2
           /\ second[1].tag = "skipped" /\ second[2].tag = "failure"
           /\ ~yielded[2].success /\ yielded[2].type = Some(<<"E">>)

====
